---- MODULE Spec2Model ----
\* Search-and-ranking layer of the CookBook backend: the primary store
\* (Prisma/PostgreSQL), the Elasticsearch index "recipes", SearchService
\* (src/src/search/search.service.ts) and the RecipesService mutations that
\* are meant to keep the index in step (src/src/recipes/recipes.service.ts).
\*
\* Strings that the code lower-cases, tokenises or matches by substring are
\* sequences of one-character strings; identifiers, tags and enum values that
\* are only ever compared exactly are TLA+ strings.  An optional value is
\* <<>> (null/undefined) or <<v>>.
EXTENDS Integers, Sequences, FiniteSets, Bags, TLC

VARIABLES store, index, indexExists, started, clock, lastOp, calls, removed,
          inflight, ratingTable, cache, timers, connectedUsers, rooms, sockets

vars == <<store, index, indexExists, started, clock, lastOp, calls, removed,
          inflight, ratingTable, cache, timers, connectedUsers, rooms, sockets>>

\* the state of the services and requests a workload does not involve:
\* requests in flight, the rating table, the AI service's cache and its
\* eviction timers, the gateway's connectedUsers map, the rooms of the
\* socket server and the sockets it has accepted
others == <<inflight, ratingTable, cache, timers, connectedUsers, rooms, sockets>>

OthersInit ==
  /\ inflight = <<>>
  /\ ratingTable = <<>>
  /\ cache = <<>>
  /\ timers = {}
  /\ connectedUsers = <<>>
  /\ rooms = {}
  /\ sockets = <<>>

\* ---------------------------------------------------------------- bounds
\* Recipes present in the primary store before the service starts.
NumSeed == 3
\* Recipes present before the start of a catalogue larger than one result
\* page (specification SpecCatalogue).
NumCatalogue == 52
\* Primary-store writes (create/update) after startup.
MaxWrites == 1

\* ------------------------------------------------------- optional values
None == <<>>
Some(v) == <<v>>
IsSome(o) == Len(o) > 0
Val(o) == o[1]

Min(a, b) == IF a < b THEN a ELSE b

\* ------------------------------------------------------------ strings
Upper == [A |-> "a", D |-> "d", E |-> "e", H |-> "h", P |-> "p", R |-> "r", T |-> "t"]

\* String.prototype.toLowerCase, one character
LowerChar(c) == IF c \in DOMAIN Upper THEN Upper[c] ELSE c

\* String.prototype.toLowerCase
ToLowerCase(s) == [k \in 1..Len(s) |-> LowerChar(s[k])]

\* Array.prototype.join(' ')
RECURSIVE Join(_)
Join(ss) ==
  IF Len(ss) = 0 THEN <<>>
  ELSE IF Len(ss) = 1 THEN ss[1]
  ELSE ss[1] \o <<" ">> \o Join(Tail(ss))

\* s contains sub as a contiguous substring (SQL LIKE '%sub%')
Contains(s, sub) ==
  \E k \in 0..(Len(s) - Len(sub)) :
    \A j \in 1..Len(sub) : s[k + j] = sub[j]

\* Prisma { contains: q, mode: 'insensitive' } on a nullable column
ContainsInsensitive(col, q) ==
  IsSome(col) /\ Contains(ToLowerCase(Val(col)), ToLowerCase(q))

\* Prisma { in: list, mode: 'insensitive' }
InInsensitive(name, list) ==
  \E k \in 1..Len(list) : ToLowerCase(name) = ToLowerCase(list[k])

\* ----------------------------------------------- the index's text analysis
\* recipe_analyzer: tokenizer 'standard', filter lowercase, stop, snowball.
\* The vocabulary of the model holds no word the snowball stemmer changes.
StopWords == {<<"a">>, <<"t", "h", "e">>}

RECURSIVE Split(_, _)
Split(s, cur) ==
  IF Len(s) = 0 THEN (IF Len(cur) = 0 THEN {} ELSE {cur})
  ELSE IF Head(s) = " "
       THEN (IF Len(cur) = 0 THEN {} ELSE {cur}) \cup Split(Tail(s), <<>>)
       ELSE Split(Tail(s), Append(cur, Head(s)))

Analyze(text) == Split(ToLowerCase(text), <<>>) \ StopWords

AnalyzeField(col) == IF IsSome(col) THEN Analyze(Val(col)) ELSE {}

DropAt(s, k) == [j \in 1..(Len(s) - 1) |-> IF j < k THEN s[j] ELSE s[j + 1]]

\* Damerau-Levenshtein distance of a and b is at most 1 (fuzziness 1)
Fuzzy1(a, b) ==
  \/ a = b
  \/ /\ Len(a) = Len(b)
     /\ \/ Cardinality({k \in 1..Len(a) : a[k] # b[k]}) = 1
        \/ \E k \in 1..(Len(a) - 1) :
             /\ a[k] = b[k + 1] /\ a[k + 1] = b[k]
             /\ \A j \in 1..Len(a) : j \notin {k, k + 1} => a[j] = b[j]
  \/ Len(a) = Len(b) + 1 /\ \E k \in 1..Len(a) : DropAt(a, k) = b
  \/ Len(b) = Len(a) + 1 /\ \E k \in 1..Len(b) : DropAt(b, k) = a

\* a match query with operator 'or': some query term fuzzily hits some term
FuzzyHit(qterms, terms) == \E q \in qterms : \E t \in terms : Fuzzy1(q, t)


\* ------------------------------------------------------------ vocabulary
sDal == <<"D", "a", "l">>
sPie == <<"P", "i", "e">>
sTart == <<"T", "a", "r", "t">>
sRice == <<"R", "i", "c", "e">>
sEgg == <<"E", "g", "g">>
sHam == <<"H", "a", "m">>
sThai == <<"T", "h", "a", "i">>
sApplePie == <<"a", "p", "p", "l", "e", " ", "p", "i", "e">>
sMix == <<"m", "i", "x">>
sBake == <<"b", "a", "k", "e">>

Users == {"u1", "u2"}

\* ------------------------------------------------------- primary store
\* A row of table recipe with its ingredient and instruction relations
\* (ordered by 'order'); id and createdAt are issued by the store.
SeedRecipe(i) ==
  [id |-> i, title |-> sDal, description |-> None,
   ingredients |-> <<sRice>>, instructions |-> <<sMix>>,
   tags |-> <<"vegan">>, difficulty |-> "EASY", cuisine |-> Some(sThai),
   prepTime |-> Some(10), cookTime |-> Some(20), servings |-> Some(2),
   authorId |-> "u1", isPublic |-> (i # 1),
   createdAt |-> i, updatedAt |-> i]

\* CreateRecipeInput values offered to create
CreateInputs ==
  { [title |-> sPie, description |-> Some(sApplePie),
     ingredients |-> <<sEgg, sRice>>, instructions |-> <<sMix, sBake>>,
     tags |-> <<"keto">>, difficulty |-> "HARD", cuisine |-> None,
     prepTime |-> Some(0), cookTime |-> Some(30), servings |-> None,
     isPublic |-> TRUE] }

\* UpdateRecipeInput values offered to update: the fields present are set
UpdateInputs ==
  { [title |-> sTart],
    [isPublic |-> FALSE] }

\* prisma.recipe.create: data = {...recipeData, authorId, ingredients, instructions}
RecipeCreate(input, authorId, id, now) ==
  [id |-> id, title |-> input.title, description |-> input.description,
   ingredients |-> input.ingredients, instructions |-> input.instructions,
   tags |-> input.tags, difficulty |-> input.difficulty, cuisine |-> input.cuisine,
   prepTime |-> input.prepTime, cookTime |-> input.cookTime, servings |-> input.servings,
   authorId |-> authorId, isPublic |-> input.isPublic,
   createdAt |-> now, updatedAt |-> now]

\* prisma.recipe.update: the scalar fields of the input overwrite the row,
\* ingredients/instructions are replaced (deleteMany + create) when given
RecipeUpdate(row, input, now) ==
  [f \in DOMAIN row |->
     IF f = "updatedAt" THEN now
     ELSE IF f \in DOMAIN input THEN input[f]
     ELSE row[f]]

\* formatRecipe: the row plus averageRating, ratingsCount, commentsCount.
\* No rating or comment is attached to a recipe in this model.
formatRecipe(recipe) ==
  recipe @@ [averageRating |-> None, ratingsCount |-> 0, commentsCount |-> 0]

\* ---------------------------------------------------------- the index
\* The document SearchService writes for a recipe (recipeData)
RecipeData(recipe) ==
  [id |-> recipe.id, title |-> recipe.title, description |-> recipe.description,
   ingredients |-> Join(recipe.ingredients),
   instructions |-> Join(recipe.instructions),
   tags |-> recipe.tags, difficulty |-> recipe.difficulty, cuisine |-> recipe.cuisine,
   prepTime |-> recipe.prepTime, cookTime |-> recipe.cookTime, servings |-> recipe.servings,
   authorId |-> recipe.authorId, isPublic |-> recipe.isPublic,
   createdAt |-> recipe.createdAt, updatedAt |-> recipe.updatedAt]

\* What the backend keeps for one document: its _id, its _source and the
\* terms of the analysed text fields (built at index time).
EsEntry(id, document) ==
  [_id |-> id, _source |-> document,
   terms |-> [title |-> Analyze(document.title),
              description |-> AnalyzeField(document.description),
              ingredients |-> Analyze(document.ingredients)]]

\* Mutant of EsIndex: the write adds a document without replacing the one
\* stored under the same _id.
EsIndexAppend(ix, id, document) ==
  ix (+) SetToBag({EsEntry(id, document)})

\* Mutant of EsIndex: a document already stored under the _id keeps its
\* fields but for the title, which is taken from the new document.
EsIndexMerge(ix, id, document) ==
  IF \E e \in BagToSet(ix) : e._id = id
  THEN LET old == (CHOOSE e \in BagToSet(ix) : e._id = id)._source
       IN [e \in {x \in BagToSet(ix) : x._id # id} |-> ix[e]]
            (+) SetToBag({EsEntry(id, [old EXCEPT !.title = document.title])})
  ELSE ix (+) SetToBag({EsEntry(id, document)})

\* The index is the bag (multiset) of the entries the backend holds.
\* elasticsearch.index({index, id, document}): the document replaces any
\* document with the same _id
EsIndex(ix, id, document) ==
  [e \in {x \in BagToSet(ix) : x._id # id} |-> ix[e]] (+) SetToBag({EsEntry(id, document)})

\* elasticsearch.bulk({operations}) of index operations, applied in order:
\* for every _id named, the last document given for it replaces any document
\* with that _id
EsBulk(ix, docs) ==
  LET ids == {docs[k].id : k \in 1..Len(docs)}
      last(id) == docs[CHOOSE k \in 1..Len(docs) :
                         /\ docs[k].id = id
                         /\ \A j \in (k + 1)..Len(docs) : docs[j].id # id]
  IN [e \in {x \in BagToSet(ix) : x._id \notin ids} |-> ix[e]]
       (+) SetToBag({EsEntry(id, last(id)) : id \in ids})

EsHas(ix, id) == \E e \in BagToSet(ix) : e._id = id

\* elasticsearch.delete({index, id}) on an existing document
EsDelete(ix, id) == [e \in {x \in BagToSet(ix) : x._id # id} |-> ix[e]]

\* the entries in the order the backend lists documents of equal score:
\* by _id, every copy of an entry listed
RECURSIVE Copies(_, _)
Copies(S, ix) ==
  IF S = {} THEN <<>>
  ELSE LET e == CHOOSE x \in S : TRUE
       IN [k \in 1..ix[e] |-> e] \o Copies(S \ {e}, ix)

RECURSIVE EntriesIn(_, _, _)
EntriesIn(ix, lo, hi) ==
  IF lo > hi THEN <<>>
  ELSE IF lo = hi THEN Copies({e \in BagToSet(ix) : e._id = lo}, ix)
  ELSE LET mid == (lo + hi) \div 2
       IN EntriesIn(ix, lo, mid) \o EntriesIn(ix, mid + 1, hi)

EntriesUpTo(ix, id) == EntriesIn(ix, 1, id)


\* ------------------------------------------------------ search inputs
NoFilters ==
  [difficulty |-> None, cuisine |-> None, tags |-> None, ingredients |-> None,
   minRating |-> None, maxPrepTime |-> None, maxCookTime |-> None]

WithFilter(f, v) == [NoFilters EXCEPT ![f] = Some(v)]

FilterInputs ==
  { NoFilters,
    WithFilter("difficulty", "HARD") }

\* one filter of each kind the resolver passes on
FilterInputsAll ==
  { NoFilters,
    WithFilter("difficulty", "EASY"),
    WithFilter("cuisine", sThai),
    WithFilter("cuisine", ToLowerCase(sThai)),
    WithFilter("tags", <<"vegan", "keto">>),
    WithFilter("ingredients", <<ToLowerCase(sRice)>>),
    WithFilter("maxPrepTime", 10),
    WithFilter("maxCookTime", 19),
    WithFilter("maxPrepTime", 0),
    WithFilter("maxCookTime", 0) }

QueryInputs == {<<>>, <<"p", "i", "e">>}

IngredientInputs == {<<<<"r", "i", "c", "e">>, sHam>>}

\* ingredient lists the resolver passes on: [String] admits the empty list
IngredientInputsAll == {<<>>, <<sRice>>, <<sEgg>>, <<<<"r", "i", "c", "e">>, sHam>>}

SkipInputs == {0, 1}

TakeInputs == {1, 1000}

\* JavaScript truthiness of an optional string / optional number
TruthyString(o) == IsSome(o) /\ Len(Val(o)) > 0
TruthyNumber(o) == IsSome(o) /\ Val(o) # 0
NonEmptyList(o) == IsSome(o) /\ Len(Val(o)) > 0

Range(seq) == {seq[k] : k \in 1..Len(seq)}

\* from/size (Elasticsearch) and skip/take (Prisma) applied to an ordered list
Page(rows, skip, size) == SubSeq(rows, skip + 1, Min(Len(rows), skip + size))

\* ------------------------------------------------- index-path queries
\* the bool.must clauses searchRecipes builds from the filters
MustMatch(e, filters) ==
  LET d == e._source IN
  /\ TruthyString(filters.difficulty) => d.difficulty = Val(filters.difficulty)
  /\ TruthyString(filters.cuisine) => d.cuisine = filters.cuisine
  /\ NonEmptyList(filters.tags) => Range(d.tags) \cap Range(Val(filters.tags)) # {}
  /\ NonEmptyList(filters.ingredients) =>
       \E k \in 1..Len(Val(filters.ingredients)) :
          d.ingredients = ToLowerCase(Val(filters.ingredients)[k])
  /\ TruthyNumber(filters.maxPrepTime) =>
       IsSome(d.prepTime) /\ Val(d.prepTime) <= Val(filters.maxPrepTime)
  /\ TruthyNumber(filters.maxCookTime) =>
       IsSome(d.cookTime) /\ Val(d.cookTime) <= Val(filters.maxCookTime)
  /\ d.isPublic = TRUE

\* multi_match best_fields over title^3, description^2, ingredients^1.5 with
\* fuzziness 1: the boost of the best field hit (times two), 0 for no hit
TextScore(e, qterms) ==
  IF FuzzyHit(qterms, e.terms.title) THEN 6
  ELSE IF FuzzyHit(qterms, e.terms.description) THEN 4
  ELSE IF FuzzyHit(qterms, e.terms.ingredients) THEN 3
  ELSE 0

\* hits of a scored query, sort _score desc; sc[k] is the score of
\* entries[k], and equal scores keep index order
RankedHits(entries, sc, levels) ==
  LET ks == [k \in 1..Len(entries) |-> k]
      AtLevel(l) == SelectSeq(ks, LAMBDA k : sc[k] = l)
      RECURSIVE Cat(_)
      Cat(ls) == IF Len(ls) = 0 THEN <<>> ELSE AtLevel(Head(ls)) \o Cat(Tail(ls))
      order == Cat(levels)
  IN [j \in 1..Len(order) |-> entries[order[j]]]

\* _source: [...] of the search body
SourceFields ==
  {"id", "title", "description", "prepTime", "cookTime", "servings",
   "difficulty", "cuisine", "tags", "authorId", "isPublic"}

HitSource(e) == [f \in SourceFields |-> e._source[f]]

\* size: Math.min(take, 50)
ResultLimit == 50

\* the response of elasticsearch.search for searchRecipes' body, mapped to
\* {recipes, total}; total is hits.total.value under track_total_hits
EsSearchRecipes(entries, query, filters, skip, take) ==
  LET qterms == Analyze(query)
      hasQuery == Len(query) > 0
      Score(e) ==
        IF ~MustMatch(e, filters) THEN 0
        ELSE IF hasQuery THEN TextScore(e, qterms)
        ELSE 1
      sc == [k \in 1..Len(entries) |-> Score(entries[k])]
      hits == RankedHits(entries, sc, <<6, 4, 3, 1>>)
      page == Page(hits, skip, Min(take, ResultLimit))
  IN [recipes |-> [k \in 1..Len(page) |-> HitSource(page[k])],
      total |-> Len(hits)]

\* fuzziness AUTO: exact up to 2 characters, one edit for 3 to 5
FuzzyAuto(q, t) == IF Len(q) <= 2 THEN q = t ELSE Fuzzy1(q, t)

\* multi_match over ingredients^2, title^1.5 for one ingredient
IngredientScore(e, qterms) ==
  IF \E q \in qterms : \E t \in e.terms.ingredients : FuzzyAuto(q, t) THEN 4
  ELSE IF \E q \in qterms : \E t \in e.terms.title : FuzzyAuto(q, t) THEN 3
  ELSE 0

EsSearchByIngredients(entries, ingredients, skip, take) ==
  LET Score(e) ==
        IF e._source.isPublic # TRUE THEN 0
        ELSE LET ss == {IngredientScore(e, Analyze(ingredients[k])) :
                          k \in 1..Len(ingredients)}
             IN IF 4 \in ss THEN 4 ELSE IF 3 \in ss THEN 3 ELSE 0
      sc == [k \in 1..Len(entries) |-> Score(entries[k])]
      hits == RankedHits(entries, sc, <<4, 3>>)
      page == Page(hits, skip, Min(take, ResultLimit))
  IN [recipes |-> [k \in 1..Len(page) |-> HitSource(page[k])],
      total |-> Len(hits)]

\* ---------------------------------------------- primary-store queries
\* Mutant of DatabaseWhere: the isPublic restriction is left out.
DatabaseWhereAnyVisibility(row, query, filters) ==
  /\ Len(query) > 0 =>
       \/ ContainsInsensitive(Some(row.title), query)
       \/ ContainsInsensitive(row.description, query)
  /\ TruthyString(filters.difficulty) => row.difficulty = Val(filters.difficulty)

\* the where clause of searchRecipesInDatabase
DatabaseWhere(row, query, filters) ==
  /\ row.isPublic = TRUE
  /\ Len(query) > 0 =>
       \/ ContainsInsensitive(Some(row.title), query)
       \/ ContainsInsensitive(row.description, query)
  /\ TruthyString(filters.difficulty) => row.difficulty = Val(filters.difficulty)
  /\ TruthyString(filters.cuisine) => ContainsInsensitive(row.cuisine, Val(filters.cuisine))
  /\ NonEmptyList(filters.tags) => Range(row.tags) \cap Range(Val(filters.tags)) # {}
  /\ NonEmptyList(filters.ingredients) =>
       \E k \in 1..Len(row.ingredients) :
          InInsensitive(row.ingredients[k], Val(filters.ingredients))
  /\ TruthyNumber(filters.maxPrepTime) =>
       IsSome(row.prepTime) /\ Val(row.prepTime) <= Val(filters.maxPrepTime)
  /\ TruthyNumber(filters.maxCookTime) =>
       IsSome(row.cookTime) /\ Val(row.cookTime) <= Val(filters.maxCookTime)

\* the where clause of the fallback of searchByIngredients
IngredientsWhere(row, ingredients) ==
  /\ row.isPublic = TRUE
  /\ \E k \in 1..Len(row.ingredients) : InInsensitive(row.ingredients[k], ingredients)

\* prisma.recipe.findMany({where, orderBy: {createdAt: 'desc'}}): the ids of
\* the rows matching where, newest first (createdAt is unique per row)
FindManyDesc(st, match, now) ==
  LET ts == [k \in 1..now |-> now + 1 - k]
      hit == SelectSeq(ts, LAMBDA t : \E i \in match : st[i].createdAt = t)
  IN [k \in 1..Len(hit) |-> CHOOSE i \in match : st[i].createdAt = hit[k]]

\* prisma.recipe.count({where})
Count(match) == Cardinality(match)

\* Mutant of searchRecipesInDatabase: total is the size of the page.
searchRecipesInDatabasePageTotal(st, now, query, filters, skip, take) ==
  LET W(row) == DatabaseWhere(row, query, filters)
      match == {i \in DOMAIN st : W(st[i])}
      rows == Page(FindManyDesc(st, match, now), skip, take)
  IN [recipes |-> [k \in 1..Len(rows) |-> formatRecipe(st[rows[k]])],
      total |-> Len(rows)]

searchRecipesInDatabase(st, now, query, filters, skip, take) ==
  LET W(row) == DatabaseWhere(row, query, filters)
      match == {i \in DOMAIN st : W(st[i])}
      rows == Page(FindManyDesc(st, match, now), skip, take)
  IN [recipes |-> [k \in 1..Len(rows) |-> formatRecipe(st[rows[k]])],
      total |-> Count(match)]

searchByIngredientsInDatabase(st, now, ingredients, skip, take) ==
  LET W(row) == IngredientsWhere(row, ingredients)
      match == {i \in DOMAIN st : W(st[i])}
      rows == Page(FindManyDesc(st, match, now), skip, take)
  IN [recipes |-> [k \in 1..Len(rows) |-> formatRecipe(st[rows[k]])],
      total |-> Count(match)]


\* ------------------------------------------------------------ backends
\* How the primary store answers the calls of one handler: normally, with
\* Prisma error P1010 (access denied), or P1001 (server unreachable).
DbOutcomes == {"ok", "P1010", "P1001"}

\* Whether the index backend answers the calls of one handler.
EsOutcomes == {TRUE, FALSE}

\* The answers of a backend the handler does not reach are not drawn.
DbIf(reached) == IF reached THEN DbOutcomes ELSE {"ok"}
EsIf(reached) == IF reached THEN EsOutcomes ELSE {TRUE}

\* one call a handler made to a collaborator, and whether it returned
Call(api, arg, ok) == [api |-> api, arg |-> arg, ok |-> ok]

CallsTo(cs, api) == SelectSeq(cs, LAMBDA c : c.api = api)

\* index writes create the index when it is missing
IndexWrites == {"elasticsearch.indices.create", "elasticsearch.index", "elasticsearch.bulk"}

WroteIndex(cs) == \E k \in 1..Len(cs) : cs[k].api \in IndexWrites /\ cs[k].ok

\* the record of the last handler run: operation, arguments, the error it
\* raised ("none" when it returned), its return value, the data path that
\* served it, and whether an indexing call repeats the previous one, which
\* returned after writing the index
Op(op, arg, err, ret, path) ==
  [op |-> op, arg |-> arg, err |-> err, ret |-> ret, path |-> path,
   repeat |-> (/\ op \in {"indexRecipe", "indexAllRecipes"}
               /\ lastOp.op = op /\ lastOp.err = "none" /\ lastOp.arg = arg
               /\ WroteIndex(calls))]

NewIds == (NumSeed + 1)..(NumSeed + MaxWrites)

\* ids offered to update, remove, deleteRecipe
IdInputs == {2} \cup NewIds

InitWith(n) ==
  /\ store = [i \in 1..n |-> SeedRecipe(i)]
  /\ index = EmptyBag
  /\ indexExists = FALSE
  /\ started = FALSE
  /\ clock = n
  /\ lastOp = [op |-> "constructor", arg |-> <<>>, err |-> "none", ret |-> <<>>,
               path |-> "none", repeat |-> FALSE]
  /\ calls = <<>>
  /\ removed = {}
  /\ OthersInit

Init == InitWith(NumSeed)

\* ------------------------------------------------ SearchService: indexing
\* createIndex: outcome [err, calls]
createIndex(exists, es) ==
  IF ~es
  THEN [err |-> "EsError", calls |-> <<Call("elasticsearch.indices.exists", <<>>, FALSE)>>]
  ELSE [err |-> "none",
        calls |-> <<Call("elasticsearch.indices.exists", <<>>, TRUE)>>
                  \o (IF exists THEN <<>>
                      ELSE <<Call("elasticsearch.indices.create", <<>>, TRUE)>>)]

\* indexAllRecipes: outcome [index, err, calls]
indexAllRecipes(ix, st, now, es, db) ==
  IF db # "ok"
  THEN [index |-> ix,
        err |-> IF db = "P1010" THEN "none" ELSE "DbError",
        calls |-> <<Call("prisma.$queryRaw", <<>>, FALSE)>>]
  ELSE LET ids == SelectSeq([k \in 1..now |-> k], LAMBDA i : i \in DOMAIN st)
           docs == [k \in 1..Len(ids) |-> RecipeData(st[ids[k]])]
           reads == <<Call("prisma.$queryRaw", <<>>, TRUE),
                      Call("prisma.recipe.findMany", <<>>, TRUE)>>
       IN IF Len(docs) = 0
          THEN [index |-> ix, err |-> "none", calls |-> reads]
          ELSE IF es
          THEN [index |-> EsBulk(ix, docs), err |-> "none",
                calls |-> Append(reads, Call("elasticsearch.bulk",
                                             [operations |-> Len(docs)], TRUE))]
          ELSE [index |-> ix, err |-> "EsError",
                calls |-> Append(reads, Call("elasticsearch.bulk",
                                             [operations |-> Len(docs)], FALSE))]

\* Mutant of onModuleInit: the error of a startup step is raised.
onModuleInitRethrow(ix, exists, st, now, es, db) ==
  LET made == createIndex(exists, es)
      all == indexAllRecipes(ix, st, now, es, db)
  IN IF made.err # "none"
     THEN [index |-> ix, err |-> made.err, calls |-> made.calls]
     ELSE [index |-> all.index, err |-> all.err, calls |-> made.calls \o all.calls]

\* onModuleInit: createIndex then indexAllRecipes, every error caught and
\* logged.  Outcome [index, err, calls].
onModuleInit(ix, exists, st, now, es, db) ==
  LET made == createIndex(exists, es)
      all == indexAllRecipes(ix, st, now, es, db)
  IN IF made.err # "none"
     THEN [index |-> ix, err |-> "none", calls |-> made.calls]
     ELSE [index |-> all.index, err |-> "none", calls |-> made.calls \o all.calls]

OnModuleInit ==
  /\ ~started
  /\ \E es \in EsOutcomes : \E db \in DbIf(es) :
       LET out == onModuleInit(index, indexExists, store, clock, es, db) IN
       /\ started' = TRUE
       /\ index' = out.index
       /\ indexExists' = (indexExists \/ WroteIndex(out.calls))
       /\ calls' = out.calls
       /\ lastOp' = Op("onModuleInit", <<>>, out.err, <<>>, "none")
  /\ UNCHANGED <<store, clock, removed>>
  /\ UNCHANGED others

IndexAllRecipes ==
  /\ started
  /\ \E db \in DbOutcomes : \E es \in EsIf(db = "ok") :
       LET out == indexAllRecipes(index, store, clock, es, db) IN
       /\ index' = out.index
       /\ indexExists' = (indexExists \/ WroteIndex(out.calls))
       /\ calls' = out.calls
       /\ lastOp' = Op("indexAllRecipes", [ids |-> DOMAIN store], out.err, <<>>, "none")
  /\ UNCHANGED <<store, started, clock, removed>>
  /\ UNCHANGED others

\* indexRecipe: outcome [index, err, calls]
indexRecipe(ix, recipe, es) ==
  IF es
  THEN [index |-> EsIndex(ix, recipe.id, RecipeData(recipe)), err |-> "none",
        calls |-> <<Call("elasticsearch.index", [id |-> recipe.id], TRUE)>>]
  ELSE [index |-> ix, err |-> "EsError",
        calls |-> <<Call("elasticsearch.index", [id |-> recipe.id], FALSE)>>]

\* snapshots offered to a direct call of indexRecipe
SnapshotInputs == {formatRecipe(store[i]) : i \in DOMAIN store \cap IdInputs}

IndexRecipe ==
  /\ started
  /\ \E recipe \in SnapshotInputs, es \in EsOutcomes :
       LET out == indexRecipe(index, recipe, es) IN
       /\ index' = out.index
       /\ indexExists' = (indexExists \/ WroteIndex(out.calls))
       /\ calls' = out.calls
       /\ lastOp' = Op("indexRecipe", [recipe |-> recipe], out.err, <<>>, "none")
  /\ UNCHANGED <<store, started, clock, removed>>
  /\ UNCHANGED others

\* deleteRecipe: the client raises a ResponseError (404) when the document
\* or the index does not exist; every error is rethrown.
\* Outcome [index, err, calls].
deleteRecipe(ix, exists, id, es) ==
  IF ~es
  THEN [index |-> ix, err |-> "EsError",
        calls |-> <<Call("elasticsearch.delete", [id |-> id], FALSE)>>]
  ELSE IF ~exists \/ ~EsHas(ix, id)
  THEN [index |-> ix, err |-> "EsNotFound",
        calls |-> <<Call("elasticsearch.delete", [id |-> id], FALSE)>>]
  ELSE [index |-> EsDelete(ix, id), err |-> "none",
        calls |-> <<Call("elasticsearch.delete", [id |-> id], TRUE)>>]

DeleteRecipe ==
  /\ started
  /\ \E id \in IdInputs, es \in EsOutcomes :
       LET out == deleteRecipe(index, indexExists, id, es) IN
       /\ index' = out.index
       /\ calls' = out.calls
       /\ lastOp' = Op("deleteRecipe", [id |-> id], out.err, <<>>, "none")
  /\ UNCHANGED <<store, indexExists, started, clock, removed>>
  /\ UNCHANGED others

\* ------------------------------------------------------ RecipesService
\* Mutant of create: a failed index upsert undoes the write and is raised.
createRollback(st, ix, now, input, authorId, db, es) ==
  IF db # "ok" \/ ~es
  THEN [store |-> st, index |-> ix, clock |-> now,
        err |-> IF db # "ok" THEN "DbError" ELSE "EsError", ret |-> <<>>,
        calls |-> <<Call("prisma.recipe.create", input, db = "ok")>>
                  \o (IF db = "ok"
                      THEN <<Call("searchService.indexRecipe", <<>>, FALSE)>>
                      ELSE <<>>)]
  ELSE LET recipe == RecipeCreate(input, authorId, now + 1, now + 1)
           upsert == indexRecipe(ix, formatRecipe(recipe), es)
       IN [store |-> st @@ (recipe.id :> recipe), index |-> upsert.index,
           clock |-> now + 1, err |-> "none", ret |-> formatRecipe(recipe),
           calls |-> <<Call("prisma.recipe.create", input, TRUE),
                       Call("searchService.indexRecipe", formatRecipe(recipe), TRUE)>>
                     \o upsert.calls]

\* Mutant of create: the index upsert is made before the store is written.
createIndexFirst(st, ix, now, input, authorId, db, es) ==
  LET recipe == RecipeCreate(input, authorId, now + 1, now + 1)
      upsert == indexRecipe(ix, formatRecipe(recipe), TRUE)
  IN IF db # "ok"
     THEN [store |-> st, index |-> upsert.index, clock |-> now,
           err |-> "DbError", ret |-> <<>>,
           calls |-> <<Call("searchService.indexRecipe", formatRecipe(recipe), TRUE),
                       Call("prisma.recipe.create", input, FALSE)>>]
     ELSE [store |-> st @@ (recipe.id :> recipe), index |-> upsert.index,
           clock |-> now + 1, err |-> "none", ret |-> formatRecipe(recipe),
           calls |-> <<Call("searchService.indexRecipe", formatRecipe(recipe), TRUE),
                       Call("prisma.recipe.create", input, TRUE)>>]

\* create: prisma.recipe.create, then the index upsert, whose failure is
\* caught and logged.  Outcome [store, index, clock, err, ret, calls].
create(st, ix, now, input, authorId, db, es) ==
  IF db # "ok"
  THEN [store |-> st, index |-> ix, clock |-> now, err |-> "DbError", ret |-> <<>>,
        calls |-> <<Call("prisma.recipe.create", input, FALSE)>>]
  ELSE LET recipe == RecipeCreate(input, authorId, now + 1, now + 1)
           upsert == indexRecipe(ix, formatRecipe(recipe), es)
       IN [store |-> st @@ (recipe.id :> recipe),
           index |-> upsert.index,
           clock |-> now + 1,
           err |-> "none",
           ret |-> formatRecipe(recipe),
           calls |-> <<Call("prisma.recipe.create", input, TRUE),
                       Call("searchService.indexRecipe", formatRecipe(recipe),
                            upsert.err = "none")>>
                     \o upsert.calls]

Create ==
  /\ started
  /\ clock < NumSeed + MaxWrites
  /\ \E input \in CreateInputs, authorId \in Users, db \in DbOutcomes :
     \E es \in EsIf(db = "ok") :
       LET out == create(store, index, clock, input, authorId, db, es) IN
       /\ store' = out.store
       /\ index' = out.index
       /\ indexExists' = (indexExists \/ WroteIndex(out.calls))
       /\ clock' = out.clock
       /\ calls' = out.calls
       /\ lastOp' = Op("create", [input |-> input, authorId |-> authorId], out.err, out.ret, "none")
  /\ UNCHANGED <<started, removed>>
  /\ UNCHANGED others

\* Mutant of Authorize: the author of the recipe is not compared.
AuthorizeAnyUser(st, id, userId) ==
  IF id \notin DOMAIN st THEN "NotFoundException" ELSE "none"

\* the checks update and remove make on the row returned by findUnique
Authorize(st, id, userId) ==
  IF id \notin DOMAIN st THEN "NotFoundException"
  ELSE IF st[id].authorId # userId THEN "ForbiddenException"
  ELSE "none"

\* update: findUnique, the two checks, prisma.recipe.update; the handler
\* makes no call to the search service.
\* Outcome [store, index, clock, err, ret, calls].
update(st, ix, now, id, input, userId, db) ==
  IF db # "ok"
  THEN [store |-> st, index |-> ix, clock |-> now, err |-> "DbError", ret |-> <<>>,
        calls |-> <<Call("prisma.recipe.findUnique", [id |-> id], FALSE)>>]
  ELSE IF Authorize(st, id, userId) # "none"
  THEN [store |-> st, index |-> ix, clock |-> now,
        err |-> Authorize(st, id, userId), ret |-> <<>>,
        calls |-> <<Call("prisma.recipe.findUnique", [id |-> id], TRUE)>>]
  ELSE LET updatedRecipe == RecipeUpdate(st[id], input, now + 1)
       IN [store |-> [st EXCEPT ![id] = updatedRecipe],
           index |-> ix,
           clock |-> now + 1,
           err |-> "none",
           ret |-> formatRecipe(updatedRecipe),
           calls |-> <<Call("prisma.recipe.findUnique", [id |-> id], TRUE),
                       Call("prisma.recipe.update", [id |-> id], TRUE)>>]

Update ==
  /\ started
  /\ clock < NumSeed + MaxWrites
  /\ \E id \in IdInputs, input \in UpdateInputs, userId \in Users, db \in DbOutcomes :
       LET out == update(store, index, clock, id, input, userId, db) IN
       /\ store' = out.store
       /\ index' = out.index
       /\ clock' = out.clock
       /\ calls' = out.calls
       /\ lastOp' = Op("update", [id |-> id, input |-> input, userId |-> userId],
                       out.err, out.ret, "none")
  /\ UNCHANGED <<indexExists, started, removed>>
  /\ UNCHANGED others

\* remove: findUnique, the two checks, prisma.recipe.delete; the handler
\* makes no call to the search service.
\* Outcome [store, index, err, ret, calls].
remove(st, ix, id, userId, db) ==
  IF db # "ok"
  THEN [store |-> st, index |-> ix, err |-> "DbError", ret |-> <<>>,
        calls |-> <<Call("prisma.recipe.findUnique", [id |-> id], FALSE)>>]
  ELSE IF Authorize(st, id, userId) # "none"
  THEN [store |-> st, index |-> ix, err |-> Authorize(st, id, userId), ret |-> <<>>,
        calls |-> <<Call("prisma.recipe.findUnique", [id |-> id], TRUE)>>]
  ELSE [store |-> [i \in DOMAIN st \ {id} |-> st[i]],
        index |-> ix,
        err |-> "none",
        ret |-> [value |-> TRUE],
        calls |-> <<Call("prisma.recipe.findUnique", [id |-> id], TRUE),
                    Call("prisma.recipe.delete", [id |-> id], TRUE)>>]

Remove ==
  /\ started
  /\ \E id \in IdInputs, userId \in Users, db \in DbOutcomes :
       LET out == remove(store, index, id, userId, db) IN
       /\ store' = out.store
       /\ index' = out.index
       /\ removed' = IF out.err = "none" THEN removed \cup {id} ELSE removed
       /\ calls' = out.calls
       /\ lastOp' = Op("remove", [id |-> id, userId |-> userId], out.err, out.ret, "none")
  /\ UNCHANGED <<indexExists, started, clock>>
  /\ UNCHANGED others

\* ------------------------------------------------ SearchService: queries
\* Mutant of searchRecipes: the index backend's error is rethrown.
searchRecipesNoFallback(ix, exists, st, now, query, filters, skip, take, es, db) ==
  IF es /\ exists
  THEN [err |-> "none", path |-> "index",
        ret |-> EsSearchRecipes(EntriesUpTo(ix, now), query, filters, skip, take),
        calls |-> <<Call("elasticsearch.search", [query |-> query], TRUE)>>]
  ELSE [err |-> "EsError", path |-> "index", ret |-> <<>>,
        calls |-> <<Call("elasticsearch.search", [query |-> query], FALSE)>>]

\* searchRecipes: the index answers, or the catch block runs the fallback.
\* Outcome [err, ret, path, calls].
searchRecipes(ix, exists, st, now, query, filters, skip, take, es, db) ==
  IF es /\ exists
  THEN [err |-> "none", path |-> "index",
        ret |-> EsSearchRecipes(EntriesUpTo(ix, now), query, filters, skip, take),
        calls |-> <<Call("elasticsearch.search", [query |-> query], TRUE)>>]
  ELSE IF db = "ok"
  THEN [err |-> "none", path |-> "database",
        ret |-> searchRecipesInDatabase(st, now, query, filters, skip, take),
        calls |-> <<Call("elasticsearch.search", [query |-> query], FALSE),
                    Call("prisma.recipe.findMany", [query |-> query], TRUE)>>]
  ELSE [err |-> "DbError", path |-> "database", ret |-> <<>>,
        calls |-> <<Call("elasticsearch.search", [query |-> query], FALSE),
                    Call("prisma.recipe.findMany", [query |-> query], FALSE)>>]

\* searchRecipes called with filters drawn from Fs
SearchRecipesOver(Fs) ==
  /\ started
  /\ \E query \in QueryInputs, filters \in Fs,
        skip \in SkipInputs, take \in TakeInputs, es \in EsOutcomes :
     \E db \in DbIf(~(es /\ indexExists)) :
       LET out == searchRecipes(index, indexExists, store, clock,
                                query, filters, skip, take, es, db) IN
       /\ calls' = out.calls
       /\ lastOp' = Op("searchRecipes",
                       [query |-> query, filters |-> filters, skip |-> skip, take |-> take],
                       out.err, out.ret, out.path)
  /\ UNCHANGED <<store, index, indexExists, started, clock, removed>>
  /\ UNCHANGED others

SearchRecipes == SearchRecipesOver(FilterInputs)

\* searchRecipes called with one filter of each kind
SearchRecipesFiltered == SearchRecipesOver(FilterInputsAll)

\* searchByIngredients: as searchRecipes, with its own fallback query
searchByIngredients(ix, exists, st, now, ingredients, skip, take, es, db) ==
  IF es /\ exists
  THEN [err |-> "none", path |-> "index",
        ret |-> EsSearchByIngredients(EntriesUpTo(ix, now), ingredients, skip, take),
        calls |-> <<Call("elasticsearch.search", [ingredients |-> ingredients], TRUE)>>]
  ELSE IF db = "ok"
  THEN [err |-> "none", path |-> "database",
        ret |-> searchByIngredientsInDatabase(st, now, ingredients, skip, take),
        calls |-> <<Call("elasticsearch.search", [ingredients |-> ingredients], FALSE),
                    Call("prisma.recipe.findMany", [ingredients |-> ingredients], TRUE)>>]
  ELSE [err |-> "DbError", path |-> "database", ret |-> <<>>,
        calls |-> <<Call("elasticsearch.search", [ingredients |-> ingredients], FALSE),
                    Call("prisma.recipe.findMany", [ingredients |-> ingredients], FALSE)>>]

SearchByIngredientsOver(Is) ==
  /\ started
  /\ \E ingredients \in Is,
        skip \in SkipInputs, take \in TakeInputs, es \in EsOutcomes :
     \E db \in DbIf(~(es /\ indexExists)) :
       LET out == searchByIngredients(index, indexExists, store, clock,
                                      ingredients, skip, take, es, db) IN
       /\ calls' = out.calls
       /\ lastOp' = Op("searchByIngredients",
                       [ingredients |-> ingredients, skip |-> skip, take |-> take],
                       out.err, out.ret, out.path)
  /\ UNCHANGED <<store, index, indexExists, started, clock, removed>>
  /\ UNCHANGED others

SearchByIngredients == SearchByIngredientsOver(IngredientInputs)

\* searchByIngredients called with lists of every length, the empty one
\* included
SearchByIngredientsAny == SearchByIngredientsOver(IngredientInputsAll)

Next ==
  \/ OnModuleInit
  \/ IndexAllRecipes
  \/ IndexRecipe
  \/ DeleteRecipe
  \/ Create
  \/ Update
  \/ Remove
  \/ SearchRecipes
  \/ SearchByIngredients

Spec == Init /\ [][Next]_vars

\* A read-only workload over a catalogue of NumCatalogue recipes
InitCatalogue == InitWith(NumCatalogue)

NextCatalogue ==
  \/ OnModuleInit
  \/ IndexAllRecipes
  \/ SearchRecipes
  \/ SearchByIngredients

SpecCatalogue == InitCatalogue /\ [][NextCatalogue]_vars

\* Searches with every kind of filter over the seeded recipes
NextFilters ==
  \/ OnModuleInit
  \/ SearchRecipesFiltered

SpecFilters == Init /\ [][NextFilters]_vars

\* Ingredient searches over the seeded recipes
NextIngredients ==
  \/ OnModuleInit
  \/ SearchByIngredientsAny

SpecIngredients == Init /\ [][NextIngredients]_vars


\* ======================================== SearchService: concurrent upserts
\* indexRecipe calls that overlap: each builds recipeData from its snapshot
\* and sends one elasticsearch.index request, which the backend applies when
\* it arrives.
MaxInflight == 2

RemoveAt(seq, k) == SubSeq(seq, 1, k - 1) \o SubSeq(seq, k + 1, Len(seq))

\* indexRecipe up to the await: recipeData is built and the request sent,
\* whatever other requests are in flight
IndexRecipeSend ==
  /\ started
  /\ Len(inflight) < MaxInflight
  /\ \E recipe \in SnapshotInputs :
       /\ inflight' = Append(inflight, [op |-> "indexRecipe", recipe |-> recipe,
                                        id |-> recipe.id,
                                        document |-> RecipeData(recipe)])
       /\ lastOp' = Op("indexRecipe.send", [recipe |-> recipe], "none", <<>>, "none")
  /\ calls' = <<>>
  /\ UNCHANGED <<store, index, indexExists, started, clock, removed>>
  /\ UNCHANGED <<ratingTable, cache, timers, connectedUsers, rooms, sockets>>

\* the backend answers one of the requests in flight: the document is
\* stored whole under its _id, or the request fails and indexRecipe
\* rethrows
IndexRecipeArrive ==
  /\ \E k \in 1..Len(inflight), es \in EsOutcomes :
       LET req == inflight[k] IN
       /\ req.op = "indexRecipe"
       /\ inflight' = RemoveAt(inflight, k)
       /\ index' = IF es THEN EsIndex(index, req.id, req.document) ELSE index
       /\ indexExists' = (indexExists \/ es)
       /\ calls' = <<Call("elasticsearch.index", [id |-> req.id], es)>>
       /\ lastOp' = Op("indexRecipe", [recipe |-> req.recipe],
                       IF es THEN "none" ELSE "EsError", <<>>, "none")
  /\ UNCHANGED <<store, started, clock, removed>>
  /\ UNCHANGED <<ratingTable, cache, timers, connectedUsers, rooms, sockets>>

NextUpserts ==
  \/ OnModuleInit
  \/ Update
  \/ IndexRecipeSend
  \/ IndexRecipeArrive

SpecUpserts == Init /\ [][NextUpserts]_vars

\* ============================================= SearchService: suggestions
\* Recipes in the store when suggestions are asked for.
NumSuggest == 13

\* take: 10 / slice(0, 10), take: 20 and the minimum length of the query
SuggestionLimit == 10
TagRowLimit == 20
MinQueryLength == 2

sRi == <<"r", "i">>

Letters ==
  <<"a", "b", "c", "d", "e", "f", "g", "h", "i", "j", "k", "l", "m", "n", "o", "p">>

\* the words "ria", "rib", ...: all contain "ri"
Word(k) == Append(sRi, Letters[k])

\* Recipe i of the store suggestions are read from.  Ingredient names and
\* tags repeat between and within recipes, the cuisine of recipe 3 repeats
\* that of recipe 1 and recipe 2 has none; tags are kept as character
\* sequences here, since getSuggestions looks inside them.
SuggestSeed(i) ==
  [SeedRecipe(i) EXCEPT
     !.ingredients = <<Word(i), Word(1)>>,
     !.tags = IF i = 1 THEN <<sRi, Word(1), Word(1)>> ELSE <<sRi, Word(i)>>,
     !.cuisine = IF i = 2 THEN None
                 ELSE IF i = 3 THEN Some(Word(1))
                 ELSE Some(Word(i))]

\* the elements of a list, each once, in the order of first occurrence
\* (Prisma distinct, new Set)
RECURSIVE Distinct(_)
Distinct(list) ==
  IF Len(list) = 0 THEN <<>>
  ELSE LET front == Distinct(SubSeq(list, 1, Len(list) - 1))
           last == list[Len(list)]
       IN IF last \in Range(front) THEN front ELSE Append(front, last)

\* Array.prototype.flatMap over the rows ids of st, by field f
RECURSIVE FlatMap(_, _, _)
FlatMap(st, ids, f) ==
  IF Len(ids) = 0 THEN <<>>
  ELSE st[Head(ids)][f] \o FlatMap(st, Tail(ids), f)

\* the ids of st in the order the store lists rows without orderBy
RowIds(st) == [k \in 1..Len(st) |-> k]

\* prisma.ingredient.findMany({where: {name: {contains, insensitive}},
\* select: {name}, distinct: ['name'], take: 10}).map(ing => ing.name)
SuggestIngredients(st, query) ==
  LET names == FlatMap(st, RowIds(st), "ingredients")
      hits == SelectSeq(names, LAMBDA n : ContainsInsensitive(Some(n), query))
  IN Page(Distinct(hits), 0, SuggestionLimit)

\* prisma.recipe.findMany({where: {cuisine: {contains, insensitive}},
\* select: {cuisine}, distinct: ['cuisine'], take: 10}), nulls filtered out
SuggestCuisine(st, query) ==
  LET hits == SelectSeq(RowIds(st), LAMBDA i : ContainsInsensitive(st[i].cuisine, query))
      cuisines == [k \in 1..Len(hits) |-> st[hits[k]].cuisine]
      results == Page(Distinct(cuisines), 0, SuggestionLimit)
      kept == SelectSeq(results, LAMBDA c : IsSome(c))
  IN [k \in 1..Len(kept) |-> Val(kept[k])]

\* Mutant of SuggestTags: the tags are neither made unique nor cut.
SuggestTagsAll(st, query) ==
  LET tagResults == SelectSeq(RowIds(st), LAMBDA i : query \in Range(st[i].tags))
      allTags == FlatMap(st, tagResults, "tags")
  IN SelectSeq(allTags, LAMBDA tag : Contains(ToLowerCase(tag), ToLowerCase(query)))

\* prisma.recipe.findMany({where: {tags: {hasSome: [query]}}, take: 20}),
\* flatMap, new Set, filter by includes, slice(0, 10)
SuggestTags(st, query) ==
  LET tagResults == Page(SelectSeq(RowIds(st), LAMBDA i : query \in Range(st[i].tags)),
                         0, TagRowLimit)
      allTags == FlatMap(st, tagResults, "tags")
      uniqueTags == Distinct(allTags)
  IN Page(SelectSeq(uniqueTags,
                    LAMBDA tag : Contains(ToLowerCase(tag), ToLowerCase(query))),
          0, SuggestionLimit)

SuggestApi ==
  [ingredients |-> "prisma.ingredient.findMany",
   cuisine |-> "prisma.recipe.findMany",
   tags |-> "prisma.recipe.findMany"]

\* getSuggestions: outcome [ret, calls]; every error is answered by []
getSuggestions(st, query, field, db) ==
  IF Len(query) = 0 \/ Len(query) < MinQueryLength
  THEN [ret |-> <<>>, calls |-> <<>>]
  ELSE IF field \notin DOMAIN SuggestApi
  THEN [ret |-> <<>>, calls |-> <<>>]
  ELSE IF db # "ok"
  THEN [ret |-> <<>>, calls |-> <<Call(SuggestApi[field], [query |-> query], FALSE)>>]
  ELSE [ret |-> CASE field = "ingredients" -> SuggestIngredients(st, query)
                  [] field = "cuisine" -> SuggestCuisine(st, query)
                  [] field = "tags" -> SuggestTags(st, query),
        calls |-> <<Call(SuggestApi[field], [query |-> query], TRUE)>>]

\* partial texts: missing or empty, one character, and longer ones
SuggestQueryInputs == {<<>>, <<"r">>, sRi, <<"R", "I">>, Word(1), <<"z", "z">>}

\* the resolver passes any string on as the field
SuggestFieldInputs == {"ingredients", "cuisine", "tags", "title"}

GetSuggestions ==
  /\ \E query \in SuggestQueryInputs, field \in SuggestFieldInputs :
     \E db \in DbIf(Len(query) >= MinQueryLength /\ field \in DOMAIN SuggestApi) :
       LET out == getSuggestions(store, query, field, db) IN
       /\ calls' = out.calls
       /\ lastOp' = Op("getSuggestions", [query |-> query, field |-> field],
                       "none", [value |-> out.ret], "database")
  /\ UNCHANGED <<store, index, indexExists, started, clock, removed>>
  /\ UNCHANGED others

InitSuggest ==
  /\ \E n \in 0..NumSuggest : store = [i \in 1..n |-> SuggestSeed(i)]
  /\ index = EmptyBag
  /\ indexExists = FALSE
  /\ started = TRUE
  /\ clock = NumSuggest
  /\ lastOp = [op |-> "constructor", arg |-> <<>>, err |-> "none", ret |-> <<>>,
               path |-> "none", repeat |-> FALSE]
  /\ calls = <<>>
  /\ removed = {}
  /\ OthersInit

NextSuggest == GetSuggestions

SpecSuggest == InitSuggest /\ [][NextSuggest]_vars

\* ============================================== AiService: trending recipes
\* Time is counted in ticks, TicksPerDay to the day, so that
\* daysSinceCreated takes fractional values.
TicksPerDay == 2

\* ticks the clock may advance while recipes are ranked
MaxTicks == 1

\* comments added on top of the seeded ones
MaxNewComments == 1

Days(d) == d * TicksPerDay

\* the time of the first request: 31 days after the first tick
TrendStart == Days(31)

\* a common multiple of every possible number of ratings of one recipe (one
\* rating per user): averages are kept as exact fractions over it
RatingScale == IF Cardinality(Users) <= 2 THEN 2 ELSE 6

\* tag lists of recipes, one for each rule of determineTrendCategory and
\* some matching several rules or none
TagInputs ==
  { <<>>, <<"vegan", "keto">>, <<"air-fryer">>, <<"air-frying">>,
    <<"sourdough">>, <<"fermentation", "pickling">>, <<"pickling">>,
    <<"low-carb">>, <<"pressure-cooker">>, <<"batch-cooking">>,
    <<"sheet-pan", "gluten-free">>, <<"dairy-free">>, <<"bbq", "one-pot">>,
    <<"smoking">> }

\* The rows read by getTrendingRecipes, with their ratings (one per user) and
\* the number of their comments.  Row 1 is 30 days old, rated 5 by one user,
\* with the tags given; row 2 is private, 8 days old, with 9 comments; rows
\* 3 and 4 differ in createdAt only (7 days old, and new).
TrendSeed(i, tags) ==
  [id |-> i,
   title |-> <<sDal, sPie, sTart, sApplePie>>[i],
   description |-> IF i = 1 THEN None ELSE Some(sApplePie),
   tags |-> IF i = 1 THEN tags ELSE <<>>,
   difficulty |-> IF i = 4 THEN "HARD" ELSE "EASY",
   prepTime |-> IF i = 1 THEN None ELSE Some(10),
   cookTime |-> IF i = 1 THEN Some(0) ELSE Some(20),
   isPublic |-> (i # 2),
   createdAt |-> <<Days(1), Days(23), Days(24), Days(31)>>[i],
   ratings |-> IF i = 1 THEN [u \in {"u1"} |-> 5] ELSE [u \in {} |-> 0],
   comments |-> IF i = 2 THEN 9 ELSE 0]

\* recipe.ratings.reduce((sum, rating) => sum + rating.rating, 0)
RECURSIVE SumRatings(_)
SumRatings(ratings) ==
  IF DOMAIN ratings = {} THEN 0
  ELSE LET u == CHOOSE x \in DOMAIN ratings : TRUE
       IN ratings[u] + SumRatings([x \in DOMAIN ratings \ {u} |-> ratings[x]])

\* Mutant of determineTrendCategory: the rating rule is tried before the tags.
determineTrendCategoryRatingFirst(recipe, sum, count, engagementScore, age) ==
  IF count > 0 /\ 2 * sum >= 9 * count THEN "Highly Rated"
  ELSE IF Range(recipe.tags) \cap {"plant-based", "vegan"} # {} THEN "Plant-Based Cooking"
  ELSE "Recently Added"

\* determineTrendCategory; avgRating is sum / count (0 without ratings) and
\* daysSinceCreated is age / TicksPerDay
determineTrendCategory(recipe, sum, count, engagementScore, age) ==
  LET tags == Range(recipe.tags)
      Has(a, b) == a \in tags \/ b \in tags
  IN IF Has("air-fryer", "air-frying") THEN "Air Frying"
     ELSE IF Has("sourdough", "fermentation") THEN "Sourdough Baking"
     ELSE IF Has("plant-based", "vegan") THEN "Plant-Based Cooking"
     ELSE IF Has("keto", "low-carb") THEN "Keto Diet"
     ELSE IF Has("instant-pot", "pressure-cooker") THEN "Instant Pot Cooking"
     ELSE IF Has("meal-prep", "batch-cooking") THEN "Meal Prep"
     ELSE IF Has("one-pot", "sheet-pan") THEN "One-Pot Meals"
     ELSE IF Has("gluten-free", "dairy-free") THEN "Allergen-Free Cooking"
     ELSE IF Has("fermentation", "pickling") THEN "Fermentation"
     ELSE IF Has("smoking", "bbq") THEN "Smoking & BBQ"
     ELSE IF count > 0 /\ 2 * sum >= 9 * count THEN "Highly Rated"
     ELSE IF engagementScore >= 10 THEN "Popular"
     ELSE IF age <= Days(7) THEN "New & Trending"
     ELSE "Recently Added"

\* Math.max(0, 30 - daysSinceCreated) / 30, in units of 1 / Days(30)
recencyScore(age) == IF Days(30) - age > 0 THEN Days(30) - age ELSE 0

\* Mutant of calculateTrendScore: the recency term grows with age.
calculateTrendScoreOlderFirst(recipe, now) ==
  LET count == Cardinality(DOMAIN recipe.ratings)
      sum == SumRatings(recipe.ratings)
      age == now - recipe.createdAt
  IN [trend |-> determineTrendCategory(recipe, sum, count, count + recipe.comments, age),
      score |-> 2 * RatingScale * age]

\* calculateTrendScore: {trend, score}.  The score is kept as the integer
\* trendScore * 150 * TicksPerDay * RatingScale, which orders recipes as
\* trendScore = recencyScore * 0.4 + ratingScore * 0.3 + engagementScore * 0.3
\* does, with recencyScore = max(0, 30 - days) / 30 and ratingScore = avg / 5.
calculateTrendScore(recipe, now) ==
  LET count == Cardinality(DOMAIN recipe.ratings)
      sum == SumRatings(recipe.ratings)
      age == now - recipe.createdAt
      engagementScore == count + recipe.comments
      rating == IF count > 0 THEN 9 * TicksPerDay * (RatingScale \div count) * sum ELSE 0
  IN [trend |-> determineTrendCategory(recipe, sum, count, engagementScore, age),
      score |-> 2 * RatingScale * recencyScore(age) + rating
                + 45 * TicksPerDay * RatingScale * engagementScore]

\* Mutant of SortByTrendScore: the list is left in the order it was read.
SortKeepOrder(items) == items

\* Array.prototype.sort((a, b) => b.trendScore - a.trendScore): by
\* trendScore descending, items of equal score in their former order
RECURSIVE SortByTrendScore(_)
SortByTrendScore(items) ==
  IF Len(items) = 0 THEN <<>>
  ELSE LET best == CHOOSE k \in 1..Len(items) :
                     /\ \A j \in 1..Len(items) : items[j].trendScore <= items[k].trendScore
                     /\ \A j \in 1..(k - 1) : items[j].trendScore < items[k].trendScore
       IN <<items[best]>>
          \o SortByTrendScore(SubSeq(items, 1, best - 1)
                               \o SubSeq(items, best + 1, Len(items)))

\* String.prototype.toUpperCase on the values of enum Difficulty
DifficultyToUpperCase == [EASY |-> "EASY", MEDIUM |-> "MEDIUM", HARD |-> "HARD"]

\* one entry of trendingRecipes
TrendEntry(recipe, now) ==
  LET trendData == calculateTrendScore(recipe, now)
  IN [title |-> recipe.title,
      description |-> recipe.description,
      trend |-> trendData.trend,
      difficulty |-> DifficultyToUpperCase[recipe.difficulty],
      prepTime |-> recipe.prepTime,
      cookTime |-> recipe.cookTime,
      trendScore |-> trendData.score]

\* ({ trendScore, ...recipe }) => ({...recipe, description: recipe.description
\* || '', prepTime: recipe.prepTime || 0, cookTime: recipe.cookTime || 0})
TrendResult(entry) ==
  [title |-> entry.title,
   description |-> IF IsSome(entry.description) THEN Val(entry.description) ELSE <<>>,
   trend |-> entry.trend,
   difficulty |-> entry.difficulty,
   prepTime |-> IF IsSome(entry.prepTime) THEN Val(entry.prepTime) ELSE 0,
   cookTime |-> IF IsSome(entry.cookTime) THEN Val(entry.cookTime) ELSE 0]

\* the list getTrendingRecipes builds from the rows it read
TrendingOf(st, now, limit) ==
  LET ids == Page(FindManyDesc(st, DOMAIN st, now), 0, Min(limit * 3, 100))
      trendingRecipes == [k \in 1..Len(ids) |-> TrendEntry(st[ids[k]], now)]
      top == Page(SortByTrendScore(trendingRecipes), 0, limit)
  IN [k \in 1..Len(top) |-> TrendResult(top[k])]

\* Mutant of getTrendingRecipes: a limit out of range is clamped into it.
getTrendingRecipesClamped(st, now, limit, db) ==
  LET clamped == IF limit < 1 THEN 1 ELSE Min(limit, 50) IN
  IF db # "ok"
  THEN [err |-> "none", ret |-> <<>>,
        calls |-> <<Call("prisma.recipe.findMany", [take |-> Min(clamped * 3, 100)], FALSE)>>]
  ELSE [err |-> "none", ret |-> TrendingOf(st, now, clamped),
        calls |-> <<Call("prisma.recipe.findMany", [take |-> Min(clamped * 3, 100)], TRUE)>>]

\* Mutant of getTrendingRecipes: the error of the store read is raised.
getTrendingRecipesRethrow(st, now, limit, db) ==
  IF limit = 0 \/ limit <= 0 \/ limit > 50
  THEN [err |-> "BadRequest", ret |-> <<>>, calls |-> <<>>]
  ELSE IF db # "ok"
  THEN [err |-> "DbError", ret |-> <<>>,
        calls |-> <<Call("prisma.recipe.findMany", [take |-> Min(limit * 3, 100)], FALSE)>>]
  ELSE [err |-> "none", ret |-> TrendingOf(st, now, limit),
        calls |-> <<Call("prisma.recipe.findMany", [take |-> Min(limit * 3, 100)], TRUE)>>]

\* getTrendingRecipes: validateInput rejects a falsy limit, the range check
\* the others; every error of the try block is answered by [].
\* Outcome [err, ret, calls].
getTrendingRecipes(st, now, limit, db) ==
  IF limit = 0 \/ limit <= 0 \/ limit > 50
  THEN [err |-> "BadRequest", ret |-> <<>>, calls |-> <<>>]
  ELSE IF db # "ok"
  THEN [err |-> "none", ret |-> <<>>,
        calls |-> <<Call("prisma.recipe.findMany", [take |-> Min(limit * 3, 100)], FALSE)>>]
  ELSE [err |-> "none", ret |-> TrendingOf(st, now, limit),
        calls |-> <<Call("prisma.recipe.findMany", [take |-> Min(limit * 3, 100)], TRUE)>>]

LimitInputs == {-1, 0, 1, 2, 50, 51}

GetTrendingRecipes ==
  /\ \E limit \in LimitInputs : \E db \in DbIf(limit >= 1 /\ limit <= 50) :
       LET out == getTrendingRecipes(store, clock, limit, db) IN
       /\ calls' = out.calls
       /\ lastOp' = Op("getTrendingRecipes", [limit |-> limit], out.err,
                       [value |-> out.ret], "none")
  /\ UNCHANGED <<store, index, indexExists, started, clock, removed>>
  /\ UNCHANGED others

\* ratings offered to rateRecipe, and the recipes they are offered for
RatingInputs == {4, 5}

RateIds == {3}

\* RecipesService.rateRecipe: the user's rating of the recipe is created, or
\* updated when there is one.  Outcome [store, err, calls].
rateRecipe(st, recipeId, userId, rating, db) ==
  IF db # "ok"
  THEN [store |-> st, err |-> "DbError",
        calls |-> <<Call("prisma.recipe.findUnique", [id |-> recipeId], FALSE)>>]
  ELSE IF recipeId \notin DOMAIN st
  THEN [store |-> st, err |-> "NotFound",
        calls |-> <<Call("prisma.recipe.findUnique", [id |-> recipeId], TRUE)>>]
  ELSE LET old == st[recipeId].ratings
           new == [u \in DOMAIN old \cup {userId} |->
                     IF u = userId THEN rating ELSE old[u]]
       IN [store |-> [st EXCEPT ![recipeId].ratings = new], err |-> "none",
           calls |-> <<Call("prisma.recipe.findUnique", [id |-> recipeId], TRUE),
                       Call("prisma.rating.findUnique", [id |-> recipeId], TRUE),
                       Call(IF userId \in DOMAIN old THEN "prisma.rating.update"
                            ELSE "prisma.rating.create", [id |-> recipeId], TRUE)>>]

RateRecipe ==
  /\ \E recipeId \in RateIds, userId \in Users, rating \in RatingInputs,
        db \in DbOutcomes :
       LET out == rateRecipe(store, recipeId, userId, rating, db) IN
       /\ store' = out.store
       /\ calls' = out.calls
       /\ lastOp' = Op("rateRecipe",
                       [id |-> recipeId, userId |-> userId, rating |-> rating],
                       out.err, <<>>, "none")
  /\ UNCHANGED <<index, indexExists, started, clock, removed>>
  /\ UNCHANGED others

CommentIds == {2}

\* RecipesService.addComment.  Outcome [store, err, calls].
addComment(st, recipeId, userId, db) ==
  IF db # "ok"
  THEN [store |-> st, err |-> "DbError",
        calls |-> <<Call("prisma.recipe.findUnique", [id |-> recipeId], FALSE)>>]
  ELSE IF recipeId \notin DOMAIN st
  THEN [store |-> st, err |-> "NotFound",
        calls |-> <<Call("prisma.recipe.findUnique", [id |-> recipeId], TRUE)>>]
  ELSE [store |-> [st EXCEPT ![recipeId].comments = @ + 1], err |-> "none",
        calls |-> <<Call("prisma.recipe.findUnique", [id |-> recipeId], TRUE),
                    Call("prisma.comment.create", [id |-> recipeId], TRUE)>>]

AddComment ==
  /\ \E recipeId \in CommentIds, userId \in Users, db \in DbOutcomes :
       /\ store[recipeId].comments < TrendSeed(recipeId, <<>>).comments + MaxNewComments
       /\ LET out == addComment(store, recipeId, userId, db) IN
          /\ store' = out.store
          /\ calls' = out.calls
          /\ lastOp' = Op("addComment", [id |-> recipeId, userId |-> userId],
                          out.err, <<>>, "none")
  /\ UNCHANGED <<index, indexExists, started, clock, removed>>
  /\ UNCHANGED others

\* new Date(): time passes between requests
AdvanceClock ==
  /\ clock < TrendStart + MaxTicks
  /\ clock' = clock + 1
  /\ calls' = <<>>
  /\ lastOp' = Op("clock", <<>>, "none", <<>>, "none")
  /\ UNCHANGED <<store, index, indexExists, started, removed>>
  /\ UNCHANGED others

InitTrending ==
  /\ \E tags \in TagInputs : store = [i \in 1..4 |-> TrendSeed(i, tags)]
  /\ index = EmptyBag
  /\ indexExists = FALSE
  /\ started = FALSE
  /\ clock = TrendStart
  /\ lastOp = [op |-> "constructor", arg |-> <<>>, err |-> "none", ret |-> <<>>,
               path |-> "none", repeat |-> FALSE]
  /\ calls = <<>>
  /\ removed = {}
  /\ OthersInit

NextTrending ==
  \/ GetTrendingRecipes
  \/ RateRecipe
  \/ AddComment
  \/ AdvanceClock

SpecTrending == InitTrending /\ [][NextTrending]_vars

\* ======================================= RecipesService: concurrent ratings
\* rateRecipe calls that overlap.  ratingTable is table rating, a list of
\* rows [userId, recipeId, rating]; the selector userId_recipeId the code
\* uses exists only for a unique constraint on (userId, recipeId), which
\* the store enforces on create.
RatedRecipeInputs == {2, NumSeed + 1}

\* the rows of the table rated by userId for recipeId
RatingRows(table, userId, recipeId) ==
  {k \in 1..Len(table) : table[k].userId = userId /\ table[k].recipeId = recipeId}

\* Mutant of PrismaRatingCreate: the row is added whatever the table holds.
PrismaRatingCreateUnchecked(table, row) ==
  [table |-> Append(table, row), err |-> "none"]

\* prisma.rating.create({data}): outcome [table, err]; a second row for
\* (userId, recipeId) violates the unique constraint (error P2002)
PrismaRatingCreate(table, row) ==
  IF RatingRows(table, row.userId, row.recipeId) # {}
  THEN [table |-> table, err |-> "P2002"]
  ELSE [table |-> Append(table, row), err |-> "none"]

\* prisma.rating.update({where: {userId_recipeId}, data}): outcome
\* [table, err]; error P2025 when there is no such row
PrismaRatingUpdate(table, row) ==
  IF RatingRows(table, row.userId, row.recipeId) = {}
  THEN [table |-> table, err |-> "P2025"]
  ELSE [table |-> [k \in 1..Len(table) |->
                     IF k \in RatingRows(table, row.userId, row.recipeId)
                     THEN [table[k] EXCEPT !.rating = row.rating]
                     ELSE table[k]],
        err |-> "none"]

\* rateRecipe up to its second await: prisma.recipe.findUnique, and
\* NotFoundException when there is no such recipe
RateRecipeFindRecipe ==
  /\ Len(inflight) < MaxInflight
  /\ \E recipeId \in RatedRecipeInputs, userId \in Users, rating \in RatingInputs :
       LET arg == [id |-> recipeId, userId |-> userId, rating |-> rating] IN
       /\ calls' = <<Call("prisma.recipe.findUnique", [id |-> recipeId], TRUE)>>
       /\ IF recipeId \in DOMAIN store
          THEN /\ inflight' = Append(inflight, [op |-> "rateRecipe", pc |-> "findRating",
                                                arg |-> arg])
               /\ lastOp' = Op("rateRecipe.findRecipe", arg, "none", <<>>, "none")
          ELSE /\ inflight' = inflight
               /\ lastOp' = Op("rateRecipe", arg, "NotFound", <<>>, "none")
  /\ UNCHANGED <<store, index, indexExists, started, clock, removed>>
  /\ UNCHANGED <<ratingTable, cache, timers, connectedUsers, rooms, sockets>>

\* prisma.rating.findUnique({where: {userId_recipeId}}) of a call in flight
RateRecipeFindRating ==
  /\ \E k \in 1..Len(inflight) :
       LET req == inflight[k]
           existingRating == RatingRows(ratingTable, req.arg.userId, req.arg.id) # {}
       IN /\ req.op = "rateRecipe" /\ req.pc = "findRating"
          /\ inflight' = [inflight EXCEPT ![k].pc =
                            IF existingRating THEN "update" ELSE "create"]
          /\ calls' = <<Call("prisma.rating.findUnique", [id |-> req.arg.id], TRUE)>>
          /\ lastOp' = Op("rateRecipe.findRating", req.arg, "none", <<>>, "none")
  /\ UNCHANGED <<store, index, indexExists, started, clock, removed>>
  /\ UNCHANGED <<ratingTable, cache, timers, connectedUsers, rooms, sockets>>

\* the write of a call in flight, prisma.rating.update or
\* prisma.rating.create as decided by what findUnique returned; the error
\* of the write is the error of rateRecipe
RateRecipeWrite ==
  /\ \E k \in 1..Len(inflight) :
       LET req == inflight[k]
           row == [userId |-> req.arg.userId, recipeId |-> req.arg.id,
                   rating |-> req.arg.rating]
           out == IF req.pc = "update" THEN PrismaRatingUpdate(ratingTable, row)
                  ELSE PrismaRatingCreate(ratingTable, row)
       IN /\ req.op = "rateRecipe" /\ req.pc \in {"update", "create"}
          /\ inflight' = RemoveAt(inflight, k)
          /\ ratingTable' = out.table
          /\ calls' = <<Call(IF req.pc = "update" THEN "prisma.rating.update"
                             ELSE "prisma.rating.create",
                             [id |-> req.arg.id], out.err = "none")>>
          /\ lastOp' = Op("rateRecipe", req.arg, out.err,
                          IF out.err = "none" THEN [value |-> row] ELSE <<>>, "none")
  /\ UNCHANGED <<store, index, indexExists, started, clock, removed>>
  /\ UNCHANGED <<cache, timers, connectedUsers, rooms, sockets>>

\* one rating is stored before the calls: by u1, for recipe 2
InitRatings ==
  /\ store = [i \in 1..NumSeed |-> SeedRecipe(i)]
  /\ index = EmptyBag
  /\ indexExists = FALSE
  /\ started = TRUE
  /\ clock = NumSeed
  /\ lastOp = [op |-> "constructor", arg |-> <<>>, err |-> "none", ret |-> <<>>,
               path |-> "none", repeat |-> FALSE]
  /\ calls = <<>>
  /\ removed = {}
  /\ inflight = <<>>
  /\ ratingTable = <<[userId |-> "u1", recipeId |-> 2, rating |-> 4]>>
  /\ cache = <<>>
  /\ timers = {}
  /\ connectedUsers = <<>>
  /\ rooms = {}
  /\ sockets = <<>>

NextRatings ==
  \/ RateRecipeFindRecipe
  \/ RateRecipeFindRating
  \/ RateRecipeWrite

SpecRatings == InitRatings /\ [][NextRatings]_vars

\* ================================================ AiService: cache and retry
\* Time is counted in milliseconds here and advances only when a timer
\* (a retry sleep, an eviction) fires, timers firing in the order of their
\* deadlines.
CACHE_TTL == 60 * 60 * 1000
MAX_RETRIES == 3
RETRY_DELAY == 1000

\* calls are started during the first MaxEpochs periods of CACHE_TTL
MaxEpochs == 1

\* cache keys of the calls, and the results the AI backend may give
AiKeys == {"improve_1", "improve_2"}
AiResults == {"v1", "v2"}
AiFallback == "fallback"

\* Mutant of RetryDelay: the same delay before every retry.
RetryDelayConstant(attempt) == RETRY_DELAY

\* this.RETRY_DELAY * Math.pow(2, attempt - 1)
RetryDelay(attempt) == RETRY_DELAY * 2 ^ (attempt - 1)

\* Mutant of CacheHas: the cache is never consulted.
CacheHasNever(c, key) == FALSE

\* this.cache.has(cacheKey)
CacheHas(c, key) == key \in DOMAIN c

\* this.cache.set(cacheKey, result); the time of the write is kept beside
\* the value for the properties about the age of entries
CacheSet(c, key, value, now) ==
  [k \in DOMAIN c \cup {key} |->
     IF k = key THEN [value |-> value, writtenAt |-> now] ELSE c[k]]

\* Mutant of CacheDelete: the timer removes the entry only if it is the one
\* written when the timer was set.
CacheDeleteOwn(c, timer) ==
  IF timer.key \in DOMAIN c /\ c[timer.key].writtenAt = timer.setAt
  THEN [k \in DOMAIN c \ {timer.key} |-> c[k]]
  ELSE c

\* () => this.cache.delete(cacheKey)
CacheDelete(c, timer) == [k \in DOMAIN c \ {timer.key} |-> c[k]]

\* setTimeout(() => this.cache.delete(cacheKey), this.CACHE_TTL)
EvictionTimer(key, now) == [key |-> key, at |-> now + CACHE_TTL, setAt |-> now]

\* the deadlines of the pending timers
Deadlines ==
  {t.at : t \in timers}
    \cup {inflight[k].wakeAt : k \in {j \in 1..Len(inflight) : inflight[j].pc = "sleep"}}

IsNextDeadline(d) == d \in Deadlines /\ \A e \in Deadlines : d <= e

\* one iteration of the loop of executeOpenAICall, given the outcome of
\* await operation(): return the result, sleep and retry, or leave the loop
\* and return fallbackValue
executeOpenAICall(attempt, outcome) ==
  IF outcome # "fail" THEN [next |-> "return", value |-> outcome]
  ELSE IF attempt < MAX_RETRIES THEN [next |-> "sleep", value |-> <<>>]
  ELSE [next |-> "return", value |-> AiFallback]

\* a public method calls getCachedOrExecute: a hit returns the cached value;
\* on a miss operation() is started, which throws while building its
\* prompt or reaches executeOpenAICall
GetCachedOrExecute ==
  /\ clock < MaxEpochs * CACHE_TTL
  /\ \E key \in AiKeys, build \in {"ok", "throws"} :
       IF CacheHas(cache, key)
       THEN /\ lastOp' = Op("getCachedOrExecute", [key |-> key], "none",
                            [value |-> cache[key].value,
                             age |-> clock - cache[key].writtenAt], "cache")
            /\ inflight' = inflight
       ELSE IF build = "throws"
       THEN /\ lastOp' = Op("getCachedOrExecute", [key |-> key], "Error", <<>>, "operation")
            /\ inflight' = inflight
       ELSE /\ Len(inflight) < MaxInflight
            /\ lastOp' = Op("getCachedOrExecute.operation", [key |-> key], "none", <<>>,
                            "operation")
            /\ inflight' = Append(inflight,
                                  [op |-> "getCachedOrExecute", key |-> key, pc |-> "call",
                                   attempt |-> 1, outcomes |-> <<>>, waits |-> <<>>,
                                   since |-> 0, wakeAt |-> 0])
  /\ calls' = <<>>
  /\ UNCHANGED <<store, index, indexExists, started, clock, removed>>
  /\ UNCHANGED <<ratingTable, cache, timers, connectedUsers, rooms, sockets>>

\* await operation() of a call in flight settles (outcomes lists what the
\* attempts of the call gave, waits the time each sleep took): on the result, or on
\* fallbackValue after the last attempt, executeOpenAICall returns and
\* getCachedOrExecute stores the value and sets the eviction timer;
\* otherwise the call sleeps
OpenAIAttempt ==
  /\ \E k \in 1..Len(inflight), outcome \in AiResults \cup {"fail"} :
       LET req == inflight[k]
           step == executeOpenAICall(req.attempt, outcome)
       IN /\ req.op = "getCachedOrExecute" /\ req.pc = "call"
          /\ calls' = <<Call("openai.chat.completions.create", [key |-> req.key],
                             outcome # "fail")>>
          /\ IF step.next = "return"
             THEN /\ inflight' = RemoveAt(inflight, k)
                  /\ cache' = CacheSet(cache, req.key, step.value, clock)
                  /\ timers' = timers \cup {EvictionTimer(req.key, clock)}
                  /\ lastOp' = Op("getCachedOrExecute", [key |-> req.key], "none",
                                  [value |-> step.value,
                                   outcomes |-> Append(req.outcomes, outcome),
                                   waits |-> req.waits], "operation")
             ELSE /\ inflight' = [inflight EXCEPT
                                    ![k].pc = "sleep",
                                    ![k].outcomes = Append(req.outcomes, outcome),
                                    ![k].since = clock,
                                    ![k].wakeAt = clock + RetryDelay(req.attempt)]
                  /\ UNCHANGED <<cache, timers>>
                  /\ lastOp' = Op("executeOpenAICall.sleep", [key |-> req.key], "none",
                                  [delay |-> RetryDelay(req.attempt)], "operation")
  /\ UNCHANGED <<store, index, indexExists, started, clock, removed>>
  /\ UNCHANGED <<ratingTable, connectedUsers, rooms, sockets>>

\* the sleep of a call in flight ends: the next iteration of the loop
SleepEnds ==
  /\ \E k \in 1..Len(inflight) :
       LET req == inflight[k] IN
       /\ req.op = "getCachedOrExecute" /\ req.pc = "sleep"
       /\ IsNextDeadline(req.wakeAt)
       /\ clock' = req.wakeAt
       /\ inflight' = [inflight EXCEPT
                         ![k].pc = "call",
                         ![k].attempt = req.attempt + 1,
                         ![k].waits = Append(req.waits, req.wakeAt - req.since)]
       /\ lastOp' = Op("executeOpenAICall.wake", [key |-> req.key], "none", <<>>, "timer")
  /\ calls' = <<>>
  /\ UNCHANGED <<store, index, indexExists, started, removed>>
  /\ UNCHANGED <<ratingTable, cache, timers, connectedUsers, rooms, sockets>>

\* an eviction timer fires
CacheEvict ==
  /\ \E timer \in timers :
       /\ IsNextDeadline(timer.at)
       /\ clock' = timer.at
       /\ timers' = timers \ {timer}
       /\ cache' = CacheDelete(cache, timer)
       /\ lastOp' = Op("cache.delete", [key |-> timer.key, setAt |-> timer.setAt], "none",
                       IF timer.key \in DOMAIN cache
                       THEN [value |-> cache[timer.key].value,
                             age |-> timer.at - cache[timer.key].writtenAt]
                       ELSE <<>>,
                       "timer")
  /\ calls' = <<>>
  /\ UNCHANGED <<store, index, indexExists, started, removed>>
  /\ UNCHANGED <<inflight, ratingTable, connectedUsers, rooms, sockets>>

InitAi ==
  /\ store = <<>>
  /\ index = EmptyBag
  /\ indexExists = FALSE
  /\ started = TRUE
  /\ clock = 0
  /\ lastOp = [op |-> "constructor", arg |-> <<>>, err |-> "none", ret |-> <<>>,
               path |-> "none", repeat |-> FALSE]
  /\ calls = <<>>
  /\ removed = {}
  /\ OthersInit

NextAi ==
  \/ GetCachedOrExecute
  \/ OpenAIAttempt
  \/ SleepEnds
  \/ CacheEvict

SpecAi == InitAi /\ [][NextAi]_vars

\* the event loop runs every settled promise and every due timer
SpecAiFair ==
  /\ SpecAi
  /\ WF_vars(OpenAIAttempt)
  /\ WF_vars(SleepEnds)
  /\ WF_vars(CacheEvict)

\* ------------------------------------------------------------ realtime gateway
\* RealtimeGateway (src/src/realtime/realtime.gateway.ts).  sockets is the
\* sequence of sockets the server has accepted, in order of arrival: the
\* socket id is the position, the handshake is what the client sent, token is
\* what handleConnection extracted from it and connected tells whether the
\* socket is still open.  connectedUsers is the gateway's Map from socket id
\* to payload.sub; rooms is the set of (socket, room) memberships kept by the
\* socket server, which drops every membership of a socket when it closes.
\* A token or header is a sequence of parts so that removing the "Bearer "
\* scheme is a computation; the empty sequence is the empty string.

MaxSockets == 2

SocketIds == 1..MaxSockets

tokU1 == <<"tok-u1">>

tokU2 == <<"tok-u2">>

tokNoSub == <<"tok-nosub">>

tokBad == <<"tok-bad">>

Handshake(auth, authorization) == [auth |-> auth, authorization |-> authorization]

\* handshakes offered by clients: a token in auth, a Bearer header, a header
\* without scheme, a header that is only the scheme, nothing at all, a token
\* that does not verify and a token that verifies but carries no sub
HandshakeInputs ==
  {Handshake(Some(tokU1), None),
   Handshake(Some(tokU2), None),
   Handshake(None, Some(<<"Bearer ">> \o tokU1)),
   Handshake(None, Some(tokU2)),
   Handshake(None, Some(<<"Bearer ">>)),
   Handshake(None, None),
   Handshake(Some(<<>>), None),
   Handshake(Some(tokBad), None),
   Handshake(Some(tokNoSub), None)}

\* String.prototype.replace('Bearer ', ''): removes the first occurrence
ReplaceBearer(header) ==
  IF \E k \in 1..Len(header) : header[k] = "Bearer "
    THEN LET k == CHOOSE k \in 1..Len(header) :
                    /\ header[k] = "Bearer "
                    /\ \A j \in 1..(k - 1) : header[j] # "Bearer "
         IN SubSeq(header, 1, k - 1) \o SubSeq(header, k + 1, Len(header))
    ELSE header

\* client.handshake.auth.token || headers.authorization?.replace('Bearer ', '')
HandshakeToken(hs) ==
  IF TruthyString(hs.auth) THEN hs.auth
  ELSE IF IsSome(hs.authorization)
    THEN Some(ReplaceBearer(Val(hs.authorization)))
    ELSE None

\* jwtService.verify: the payload of a token that verifies, or a throw
JwtVerify(token) ==
  IF token = tokU1 THEN [ok |-> TRUE, sub |-> Some("u1")]
  ELSE IF token = tokU2 THEN [ok |-> TRUE, sub |-> Some("u2")]
  ELSE IF token = tokNoSub THEN [ok |-> TRUE, sub |-> None]
  ELSE [ok |-> FALSE, sub |-> None]

\* `${kind}:${id}` of an optional id; undefined is formatted as "undefined"
Room(kind, id) == [kind |-> kind, id |-> IF IsSome(id) THEN Val(id) ELSE "undefined"]

Membership(s, room) == [socket |-> s, room |-> room]

MapSet(m, k, v) == [x \in DOMAIN m \cup {k} |-> IF x = k THEN v ELSE m[x]]

MapDelete(m, k) == [x \in DOMAIN m \ {k} |-> m[x]]

MapGet(m, k) == IF k \in DOMAIN m THEN m[k] ELSE None

\* the socket server on close: the socket leaves every room
LeaveAll(rs, s) == {m \in rs : m.socket # s}

\* handleDisconnect: the entry is deleted when the recorded user is truthy
handleDisconnect(cu, s) ==
  IF IsSome(MapGet(cu, s)) THEN MapDelete(cu, s) ELSE cu

IsOwnUserAlways(cu, s, dataUserId) == TRUE

\* userId && userId === data.userId
IsOwnUser(cu, s, dataUserId) ==
  /\ IsSome(MapGet(cu, s))
  /\ Val(MapGet(cu, s)) = dataUserId

GatewayOp(op, arg, joined) ==
  Op(op, arg, "none", [changed |-> joined], "none")

GatewayFrame ==
  UNCHANGED <<store, index, indexExists, started, clock, removed,
              inflight, ratingTable, cache, timers>>

HandleConnection ==
  \E hs \in HandshakeInputs :
    LET s == Len(sockets) + 1
        token == HandshakeToken(hs)
        payload == JwtVerify(Val(token))
        accepted == TruthyString(token) /\ payload.ok
    IN
    /\ s \in SocketIds
    /\ sockets' = Append(sockets, [handshake |-> hs, token |-> token,
                                   connected |-> accepted])
    /\ IF accepted
         THEN /\ connectedUsers' = MapSet(connectedUsers, s, payload.sub)
              /\ rooms' = rooms \cup {Membership(s, Room("user", payload.sub))}
         ELSE \* client.disconnect()
              /\ connectedUsers' = handleDisconnect(connectedUsers, s)
              /\ rooms' = LeaveAll(rooms, s)
    /\ lastOp' = GatewayOp("handleConnection", [socket |-> s], accepted)
    /\ calls' = <<>>
    /\ GatewayFrame

HandleDisconnect ==
  \E s \in 1..Len(sockets) :
    /\ sockets[s].connected
    /\ sockets' = [sockets EXCEPT ![s].connected = FALSE]
    /\ rooms' = LeaveAll(rooms, s)
    /\ connectedUsers' = handleDisconnect(connectedUsers, s)
    /\ lastOp' = GatewayOp("handleDisconnect", [socket |-> s],
                           connectedUsers' # connectedUsers)
    /\ calls' = <<>>
    /\ GatewayFrame

\* a message handler runs only for a socket that is still open; the four
\* handlers of notifications and feed act only for the socket's recorded user
HandleSubscribeNotifications ==
  \E s \in 1..Len(sockets), u \in Users :
    LET m == Membership(s, Room("notifications", Some(u)))
        allowed == IsOwnUser(connectedUsers, s, u)
    IN
    /\ sockets[s].connected
    /\ rooms' = IF allowed THEN rooms \cup {m} ELSE rooms
    /\ lastOp' = GatewayOp("handleSubscribeNotifications", [socket |-> s, userId |-> u], allowed)
    /\ calls' = <<>>
    /\ UNCHANGED <<connectedUsers, sockets>>
    /\ GatewayFrame

RecipeRoomInputs == {"r1"}

\* subscribe:recipe and unsubscribe:recipe are open to every socket
HandleSubscribeRecipe ==
  \E s \in 1..Len(sockets), r \in RecipeRoomInputs :
    LET m == Membership(s, Room("recipe", Some(r))) IN
    /\ sockets[s].connected
    /\ rooms' = rooms \cup {m}
    /\ lastOp' = GatewayOp("handleSubscribeRecipe", [socket |-> s, recipeId |-> r], TRUE)
    /\ calls' = <<>>
    /\ UNCHANGED <<connectedUsers, sockets>>
    /\ GatewayFrame

HandleSubscribeFeed ==
  \E s \in 1..Len(sockets), u \in Users :
    LET m == Membership(s, Room("feed", Some(u)))
        allowed == IsOwnUser(connectedUsers, s, u)
    IN
    /\ sockets[s].connected
    /\ rooms' = IF allowed THEN rooms \cup {m} ELSE rooms
    /\ lastOp' = GatewayOp("handleSubscribeFeed", [socket |-> s, userId |-> u], allowed)
    /\ calls' = <<>>
    /\ UNCHANGED <<connectedUsers, sockets>>
    /\ GatewayFrame

HandleUnsubscribeNotifications ==
  \E s \in 1..Len(sockets), u \in Users :
    LET m == Membership(s, Room("notifications", Some(u)))
        allowed == IsOwnUser(connectedUsers, s, u)
    IN
    /\ sockets[s].connected
    /\ rooms' = IF allowed THEN rooms \ {m} ELSE rooms
    /\ lastOp' = GatewayOp("handleUnsubscribeNotifications", [socket |-> s, userId |-> u], allowed)
    /\ calls' = <<>>
    /\ UNCHANGED <<connectedUsers, sockets>>
    /\ GatewayFrame

HandleUnsubscribeRecipe ==
  \E s \in 1..Len(sockets), r \in RecipeRoomInputs :
    LET m == Membership(s, Room("recipe", Some(r))) IN
    /\ sockets[s].connected
    /\ rooms' = rooms \ {m}
    /\ lastOp' = GatewayOp("handleUnsubscribeRecipe", [socket |-> s, recipeId |-> r], TRUE)
    /\ calls' = <<>>
    /\ UNCHANGED <<connectedUsers, sockets>>
    /\ GatewayFrame

HandleUnsubscribeFeed ==
  \E s \in 1..Len(sockets), u \in Users :
    LET m == Membership(s, Room("feed", Some(u)))
        allowed == IsOwnUser(connectedUsers, s, u)
    IN
    /\ sockets[s].connected
    /\ rooms' = IF allowed THEN rooms \ {m} ELSE rooms
    /\ lastOp' = GatewayOp("handleUnsubscribeFeed", [socket |-> s, userId |-> u], allowed)
    /\ calls' = <<>>
    /\ UNCHANGED <<connectedUsers, sockets>>
    /\ GatewayFrame

InitGateway == InitWith(NumSeed)

NextGateway ==
  \/ HandleConnection
  \/ HandleDisconnect
  \/ HandleSubscribeNotifications
  \/ HandleSubscribeFeed
  \/ HandleSubscribeRecipe
  \/ HandleUnsubscribeNotifications
  \/ HandleUnsubscribeRecipe
  \/ HandleUnsubscribeFeed

SpecGateway == InitGateway /\ [][NextGateway]_vars

\* ================================================================ claims
IsSearch == lastOp.op \in {"searchRecipes", "searchByIngredients"}

\* the search returned a result
Returned == IsSearch /\ lastOp.err = "none"

\* the call the search made to the index backend raised an error
IndexCallFailed == IsSearch /\ ~calls[1].ok

ResultShape == {"recipes", "total"}

C2_PageAtMostFifty ==
  Returned => Len(lastOp.ret.recipes) <= Min(lastOp.arg.take, ResultLimit)

\* some text of the row is hit by the query, by the index's analysis or by
\* the store's substring match
MatchesText(row, query) ==
  \/ FuzzyHit(Analyze(query),
              Analyze(row.title) \cup AnalyzeField(row.description)
                \cup Analyze(Join(row.ingredients)))
  \/ ContainsInsensitive(Some(row.title), query)
  \/ ContainsInsensitive(row.description, query)

\* C3: once RecipesService.remove has deleted a recipe, no search returns an
\* item with its id, and a text search that matches no stored recipe has
\* total 0.
C3_RemovedNeverReturned ==
  (lastOp.op = "searchRecipes" /\ lastOp.err = "none") =>
    /\ \A k \in 1..Len(lastOp.ret.recipes) : lastOp.ret.recipes[k].id \notin removed
    /\ ( /\ Len(lastOp.arg.query) > 0
         /\ \A i \in DOMAIN store : ~MatchesText(store[i], lastOp.arg.query) )
       => lastOp.ret.total = 0

\* the index holds for id exactly the projection of the stored recipe
Synced(id) ==
  /\ id \in DOMAIN store
  /\ \A e \in BagToSet(index) :
       e._id = id => e = EsEntry(id, RecipeData(store[id]))
  /\ CopiesIn(EsEntry(id, RecipeData(store[id])), index) = 1

\* C4: when update has returned the updated recipe, the indexed document of
\* that id is the projection of the updated recipe, unless the upsert the
\* handler made was refused by the index backend.
C4_UpdateReindexes ==
  (lastOp.op = "update" /\ lastOp.err = "none") =>
    \/ Synced(lastOp.arg.id)
    \/ \E k \in 1..Len(calls) :
         calls[k].api = "searchService.indexRecipe" /\ ~calls[k].ok

\* C5: every recipe a search returns has isPublic = true.
C5_OnlyPublicReturned ==
  Returned =>
    \A k \in 1..Len(lastOp.ret.recipes) : lastOp.ret.recipes[k].isPublic = TRUE

\* the fallback returns rows while a private row satisfies the text and the
\* filters of the request
C5_Witness ==
  /\ lastOp.op = "searchRecipes" /\ lastOp.err = "none" /\ lastOp.path = "database"
  /\ Len(lastOp.ret.recipes) > 0
  /\ \E i \in DOMAIN store :
       /\ ~store[i].isPublic
       /\ DatabaseWhere([store[i] EXCEPT !.isPublic = TRUE],
                        lastOp.arg.query, lastOp.arg.filters)

FailedUpsert(cs) ==
  \E k \in 1..Len(cs) : cs[k].api = "searchService.indexRecipe" /\ ~cs[k].ok

\* C6: when the index upsert made by create fails, create returns the
\* created recipe and the row it wrote is in the store as written.
C6_CreateSurvivesIndexFailure ==
  (lastOp.op = "create" /\ FailedUpsert(calls)) =>
    /\ lastOp.err = "none"
    /\ clock \in DOMAIN store
    /\ store[clock] = RecipeCreate(lastOp.arg.input, lastOp.arg.authorId, clock, clock)
    /\ lastOp.ret = formatRecipe(store[clock])

C6_Witness ==
  /\ lastOp.op = "create" /\ FailedUpsert(calls)
  /\ lastOp.err = "none" /\ ~EsHas(index, lastOp.ret.id)

\* C7: create writes the store first and then makes exactly one index
\* upsert, with the formatted created recipe; when the write fails the error
\* is raised and no upsert is made; the index never holds a document for an
\* id the store has not held.
C7_CreateStoresThenIndexesOnce ==
  /\ lastOp.op = "create" =>
       /\ calls[1].api = "prisma.recipe.create"
       /\ IF calls[1].ok
          THEN /\ Len(CallsTo(calls, "searchService.indexRecipe")) = 1
               /\ calls[2].api = "searchService.indexRecipe"
               /\ calls[2].arg = formatRecipe(store[clock])
               /\ calls[2].arg = lastOp.ret
          ELSE /\ lastOp.err = "DbError"
               /\ Len(calls) = 1
  /\ \A e \in BagToSet(index) : e._id \in DOMAIN store \cup removed

C7_Witness ==
  /\ lastOp.op = "create" /\ lastOp.err = "none"
  /\ Synced(lastOp.ret.id)

\* the number of documents of the index the request matches
IndexMatchCount(arg) ==
  LET Hit(e) ==
        IF lastOp.op = "searchRecipes"
        THEN /\ MustMatch(e, arg.filters)
             /\ Len(arg.query) > 0 => TextScore(e, Analyze(arg.query)) > 0
        ELSE /\ e._source.isPublic = TRUE
             /\ \E k \in 1..Len(arg.ingredients) :
                  IngredientScore(e, Analyze(arg.ingredients[k])) > 0
      hits == {e \in BagToSet(index) : Hit(e)}
  IN IF hits = {} THEN 0 ELSE BagCardinality([e \in hits |-> index[e]])

\* the number of rows of the store the request matches
StoreMatchCount(arg) ==
  Cardinality({i \in DOMAIN store :
     IF lastOp.op = "searchRecipes"
     THEN DatabaseWhere(store[i], arg.query, arg.filters)
     ELSE IngredientsWhere(store[i], arg.ingredients)})

OneDocPerId(ix) ==
  \A e \in BagToSet(ix) :
    /\ ix[e] = 1
    /\ \A x \in BagToSet(ix) : x._id = e._id => x = e

\* C9: an indexRecipe call that repeats the previous one with the same
\* recipe, or an indexAllRecipes call that repeats the previous one on the
\* same store, leaves the index as it was, with one document per id.
C9_IndexingIdempotent ==
  [][(lastOp'.repeat /\ lastOp'.err = "none") =>
       (index' = index /\ OneDocPerId(index'))]_vars

C9_Witness ==
  /\ lastOp.op = "indexRecipe" /\ lastOp.repeat /\ lastOp.err = "none"
  /\ EsHas(index, lastOp.arg.recipe.id)

\* C10: deleteRecipe for an id without an indexed document, answered by the
\* index backend, raises no error and leaves the index unchanged.
C10_DeleteMissingIsNoop ==
  [][( /\ lastOp'.op = "deleteRecipe"
       /\ lastOp'.err # "EsError"
       /\ ~EsHas(index, lastOp'.arg.id) ) =>
       (lastOp'.err = "none" /\ index' = index)]_vars

StoreCallFailed ==
  \E k \in 1..Len(calls) :
    calls[k].api \in {"prisma.$queryRaw", "prisma.recipe.findMany"} /\ ~calls[k].ok

\* C12: when the primary store fails during indexAllRecipes, whatever the
\* error it reports, indexAllRecipes returns without raising and without
\* having written the index.
C12_ReindexToleratesStoreFailure ==
  (lastOp.op = "indexAllRecipes" /\ StoreCallFailed) =>
    (lastOp.err = "none" /\ ~WroteIndex(calls))

\* the structured filters as the interface defines them: difficulty and
\* cuisine exact, tags and ingredients match-any (ingredients whatever the
\* case), maxPrepTime and maxCookTime inclusive upper bounds, all ANDed
FiltersHold(row, filters) ==
  /\ IsSome(filters.difficulty) => row.difficulty = Val(filters.difficulty)
  /\ IsSome(filters.cuisine) => row.cuisine = filters.cuisine
  /\ IsSome(filters.tags) => Range(row.tags) \cap Range(Val(filters.tags)) # {}
  /\ IsSome(filters.ingredients) =>
       \E k \in 1..Len(row.ingredients) :
          InInsensitive(row.ingredients[k], Val(filters.ingredients))
  /\ IsSome(filters.maxPrepTime) =>
       IsSome(row.prepTime) /\ Val(row.prepTime) <= Val(filters.maxPrepTime)
  /\ IsSome(filters.maxCookTime) =>
       IsSome(row.cookTime) /\ Val(row.cookTime) <= Val(filters.maxCookTime)

\* the public rows the request selects: the text by substring whatever the
\* case, the filters as FiltersHold
Selected(arg) ==
  {i \in DOMAIN store :
     /\ store[i].isPublic = TRUE
     /\ Len(arg.query) > 0 =>
          \/ ContainsInsensitive(Some(store[i].title), arg.query)
          \/ ContainsInsensitive(store[i].description, arg.query)
     /\ FiltersHold(store[i], arg.filters)}

\* C13: a searchRecipes served by the fallback returns exactly the public
\* recipes satisfying the structured filters (difficulty and cuisine exact,
\* tags and ingredients match-any, time bounds inclusive): each returned
\* recipe is one of them and total is their number.
C13_FallbackFiltersAsSpecified ==
  (lastOp.op = "searchRecipes" /\ Returned /\ lastOp.path = "database") =>
    /\ \A k \in 1..Len(lastOp.ret.recipes) :
         lastOp.ret.recipes[k].id \in Selected(lastOp.arg)
    /\ lastOp.ret.total = Cardinality(Selected(lastOp.arg))

\* ------------------------------------------------------ trending recipes
IsTrending == lastOp.op = "getTrendingRecipes"

ValidLimit == lastOp.arg.limit >= 1 /\ lastOp.arg.limit <= 50

\* getTrendingRecipes read the store and answered from its rows
Ranked == IsTrending /\ lastOp.err = "none" /\ Len(calls) = 1 /\ calls[1].ok

\* the stored recipe a returned entry was made from (titles are unique)
RowOf(entry) == CHOOSE i \in DOMAIN store : store[i].title = entry.title

ScoreOf(i) == calculateTrendScore(store[i], clock).score

\* the ids of the returned entries, in the order returned
ReturnedIds == [k \in 1..Len(lastOp.ret.value) |-> RowOf(lastOp.ret.value[k])]

\* the min(limit * 3, 100) most recently created recipes
Candidates ==
  {i \in DOMAIN store :
     Cardinality({j \in DOMAIN store : store[j].createdAt > store[i].createdAt})
       < Min(lastOp.arg.limit * 3, 100)}

\* C14: every recipe getTrendingRecipes returns is public.
C14_TrendingOnlyPublic ==
  Ranked => \A k \in 1..Len(ReturnedIds) : store[ReturnedIds[k]].isPublic = TRUE

\* C15: getTrendingRecipes with limit < 1 or limit > 50 raises a bad-request
\* error without reading the store; with a limit in 1..50 it raises nothing
\* and reads the store with take = min(limit * 3, 100).
C15_LimitValidated ==
  IsTrending =>
    IF ValidLimit
    THEN /\ lastOp.err = "none"
         /\ Len(calls) = 1
         /\ calls[1].api = "prisma.recipe.findMany"
         /\ calls[1].arg.take = Min(lastOp.arg.limit * 3, 100)
    ELSE /\ lastOp.err = "BadRequest"
         /\ calls = <<>>

C15_Witness ==
  IsTrending /\ lastOp.arg.limit = 51 /\ lastOp.err = "BadRequest"

\* C16: the list returned for a valid limit has min(limit, number of
\* candidates) entries, all candidates, in non-increasing trendScore order,
\* and no candidate left out scores strictly higher than a returned one.
C16_TopLimitByScore ==
  Ranked =>
    LET ids == ReturnedIds IN
    /\ Len(ids) = Min(lastOp.arg.limit, Cardinality(Candidates))
    /\ Len(ids) <= lastOp.arg.limit
    /\ \A k \in 1..Len(ids) : ids[k] \in Candidates
    /\ \A k \in 1..Len(ids), j \in 1..Len(ids) : k # j => ids[k] # ids[j]
    /\ \A k \in 1..(Len(ids) - 1) : ScoreOf(ids[k]) >= ScoreOf(ids[k + 1])
    /\ \A c \in Candidates \ Range(ids) :
         \A k \in 1..Len(ids) : ScoreOf(c) <= ScoreOf(ids[k])

\* a ranking in which the order of the scores is not the order read, with a
\* candidate left out
C16_Witness ==
  /\ Ranked /\ Len(ReturnedIds) = 2
  /\ Candidates \ Range(ReturnedIds) # {}
  /\ store[ReturnedIds[1]].createdAt < store[ReturnedIds[2]].createdAt
  /\ ScoreOf(ReturnedIds[1]) > ScoreOf(ReturnedIds[2])

\* The tag rules in priority order, <<tags of the rule, label>>, the first
\* rule being matched by the tags in airFrying.
TagRules(airFrying) ==
  << <<airFrying, "Air Frying">>,
     <<{"sourdough", "fermentation"}, "Sourdough Baking">>,
     <<{"plant-based", "vegan"}, "Plant-Based Cooking">>,
     <<{"keto", "low-carb"}, "Keto Diet">>,
     <<{"instant-pot", "pressure-cooker"}, "Instant Pot Cooking">>,
     <<{"meal-prep", "batch-cooking"}, "Meal Prep">>,
     <<{"one-pot", "sheet-pan"}, "One-Pot Meals">>,
     <<{"gluten-free", "dairy-free"}, "Allergen-Free Cooking">>,
     <<{"fermentation", "pickling"}, "Fermentation">>,
     <<{"smoking", "bbq"}, "Smoking & BBQ">> >>

\* twice the average rating of recipe i, 0 without ratings
TwiceAvgRating(i) ==
  LET count == Cardinality(DOMAIN store[i].ratings)
  IN IF count = 0 THEN 0
     ELSE (2 * RatingScale * SumRatings(store[i].ratings)) \div count

\* the label the priority list gives recipe i: that of the first tag rule
\* one of its tags matches, else by rating, engagement and age
FirstMatchLabel(rules, i) ==
  LET matching == {k \in 1..Len(rules) : rules[k][1] \cap Range(store[i].tags) # {}}
  IN IF matching # {}
     THEN rules[CHOOSE k \in matching : \A j \in matching : k <= j][2]
     ELSE IF TwiceAvgRating(i) >= 9 * RatingScale THEN "Highly Rated"
     ELSE IF Cardinality(DOMAIN store[i].ratings) + store[i].comments >= 10
     THEN "Popular"
     ELSE IF clock - store[i].createdAt <= Days(7) THEN "New & Trending"
     ELSE "Recently Added"

LabelsFollow(rules) ==
  Ranked => \A k \in 1..Len(ReturnedIds) :
              lastOp.ret.value[k].trend = FirstMatchLabel(rules, ReturnedIds[k])

\* C17 (as stated): the label of every returned recipe is that of the first
\* matching rule, the first tag rule being matched by the tag air-fryer.
C17_LabelByDocumentedRules == LabelsFollow(TagRules({"air-fryer"}))

\* C17 (amended): the label of every returned recipe is that of the first
\* matching rule, the first tag rule being matched by air-fryer or
\* air-frying; a recipe with a matching tag never gets a rating, engagement
\* or age label, and one tagged vegan and keto, rated 5.0 on average, is
\* labelled 'Plant-Based Cooking'.
C17_LabelByFirstMatchingRule ==
  /\ LabelsFollow(TagRules({"air-fryer", "air-frying"}))
  /\ Ranked => \A k \in 1..Len(ReturnedIds) :
       LET tags == Range(store[ReturnedIds[k]].tags)
           trend == lastOp.ret.value[k].trend
       IN /\ (\E r \in 1..10 : TagRules({"air-fryer", "air-frying"})[r][1] \cap tags # {})
               => trend \notin {"Highly Rated", "Popular", "New & Trending", "Recently Added"}
          /\ ({"vegan", "keto"} \subseteq tags /\ TwiceAvgRating(ReturnedIds[k]) = 10 * RatingScale)
               => trend = "Plant-Based Cooking"

C17_Witness ==
  /\ Ranked
  /\ \E k \in 1..Len(ReturnedIds) :
       /\ store[ReturnedIds[k]].tags = <<"vegan", "keto">>
       /\ TwiceAvgRating(ReturnedIds[k]) = 10 * RatingScale
       /\ lastOp.ret.value[k].trend = "Plant-Based Cooking"

\* creation times tried for a recipe: those of the stored recipes and the
\* ages around 30 days
CreatedAtInputs ==
  {store[i].createdAt : i \in DOMAIN store}
    \cup {t \in {clock - Days(30) - 1, clock - Days(30), clock - Days(30) + 1, clock} : t >= 0}

\* recipe i, created at t instead
CreatedAt(i, t) == [store[i] EXCEPT !.createdAt = t]

\* C18: of two candidates differing in createdAt only, the more recent one
\* has a recencyScore and a trendScore at least those of the older one;
\* recencyScore is never negative and is 0 from the age of 30 days on.
C18_RecencyMonotone ==
  Ranked =>
    \A i \in DOMAIN store : \A older \in CreatedAtInputs, newer \in CreatedAtInputs :
      /\ recencyScore(clock - older) >= 0
      /\ clock - older >= Days(30) => recencyScore(clock - older) = 0
      /\ older < newer =>
           /\ recencyScore(clock - newer) >= recencyScore(clock - older)
           /\ calculateTrendScore(CreatedAt(i, newer), clock).score
                >= calculateTrendScore(CreatedAt(i, older), clock).score

\* two returned recipes differing in createdAt only, the newer one scoring
\* strictly higher and ranked first, next to one aged 30 days or more
C18_Witness ==
  /\ Ranked
  /\ \E k \in 1..Len(ReturnedIds), j \in 1..Len(ReturnedIds) :
       LET newer == ReturnedIds[k]
           older == ReturnedIds[j]
       IN /\ k < j
          /\ store[older].createdAt < store[newer].createdAt
          /\ store[older].ratings = store[newer].ratings
          /\ store[older].comments = store[newer].comments
          /\ store[older].tags = store[newer].tags
          /\ ScoreOf(newer) > ScoreOf(older)
  /\ \E i \in DOMAIN store : clock - store[i].createdAt >= Days(30)

\* the store read of getTrendingRecipes failed
TrendReadFailed == IsTrending /\ Len(calls) = 1 /\ ~calls[1].ok

\* C19: getTrendingRecipes with a valid limit whose store read fails returns
\* the empty list and raises nothing.
C19_StoreFailureGivesEmptyList ==
  (IsTrending /\ ValidLimit) =>
    /\ Len(calls) = 1
    /\ TrendReadFailed => (lastOp.err = "none" /\ lastOp.ret.value = <<>>)

C19_Witness ==
  TrendReadFailed /\ ValidLimit /\ lastOp.err = "none" /\ lastOp.ret.value = <<>>

\* ------------------------------------------------------ empty query text
\* the ids of the returned recipes, in the order returned
FoundIds == [k \in 1..Len(lastOp.ret.recipes) |-> lastOp.ret.recipes[k].id]

\* ids is the page (skip, take) of the rows in S listed by createdAt
\* descending
IsPageByCreatedAtDesc(ids, S, skip, take) ==
  /\ Range(ids) \subseteq S
  /\ Len(ids) = Min(take, IF Cardinality(S) > skip THEN Cardinality(S) - skip ELSE 0)
  /\ \A k \in 1..Len(ids) :
       /\ Cardinality({i \in S : store[i].createdAt > store[ids[k]].createdAt})
            <= skip + k - 1
       /\ Cardinality({i \in S : store[i].createdAt >= store[ids[k]].createdAt})
            >= skip + k

\* C20: searchRecipes with an empty query text returns, on the index path
\* and on the fallback path, the page of the public recipes satisfying the
\* filters, listed by createdAt descending.
C20_EmptyQueryByCreatedAtDesc ==
  (lastOp.op = "searchRecipes" /\ Returned /\ Len(lastOp.arg.query) = 0) =>
    IsPageByCreatedAtDesc(FoundIds, Selected(lastOp.arg),
                          lastOp.arg.skip, Min(lastOp.arg.take, ResultLimit))

\* ------------------------------------------------------ time bounds
\* recipe r of a result respects the bound given for field f, if one is given
WithinBound(r, f, bound) ==
  IsSome(bound) => (IsSome(r[f]) /\ Val(r[f]) <= Val(bound))

\* C21: every recipe searchRecipes returns, by the index or by the fallback,
\* has prepTime <= maxPrepTime and cookTime <= maxCookTime for each bound
\* the caller gave, the bound 0 included.
C21_TimeBoundsRespected ==
  (lastOp.op = "searchRecipes" /\ Returned) =>
    \A k \in 1..Len(lastOp.ret.recipes) :
      /\ WithinBound(lastOp.ret.recipes[k], "prepTime", lastOp.arg.filters.maxPrepTime)
      /\ WithinBound(lastOp.ret.recipes[k], "cookTime", lastOp.arg.filters.maxCookTime)

\* ------------------------------------------------------ ingredient lists
\* C22: searchByIngredients called with an empty ingredient list raises an
\* input-validation error, calls no backend and returns no result.
C22_EmptyIngredientListRejected ==
  (lastOp.op = "searchByIngredients" /\ Len(lastOp.arg.ingredients) = 0) =>
    (lastOp.err = "BadRequest" /\ calls = <<>> /\ lastOp.ret = <<>>)

\* ------------------------------------------------------ concurrent upserts
DocsOf(id) == {e \in BagToSet(index) : e._id = id}

\* the rows that up to n updates make of the rows given
RECURSIVE VersionsOf(_, _)
VersionsOf(rows, n) ==
  IF n = 0 THEN rows
  ELSE VersionsOf(rows \cup {RecipeUpdate(r, input, t) :
                               r \in rows, input \in UpdateInputs, t \in 1..clock},
                  n - 1)

\* every document of the index is the complete projection of one snapshot
\* of its recipe: of the stored row as it is or as it was before an update
WholeDocuments ==
  \A e \in BagToSet(index) :
    /\ e._id \in DOMAIN store
    /\ \E row \in VersionsOf({SeedRecipe(e._id)}, MaxWrites) :
         e = EsEntry(e._id, RecipeData(formatRecipe(row)))

\* C23: when an upsert reaches the backend, the index holds exactly one
\* document for its id, the complete projection that upsert carried,
\* whatever other upserts for the id are or were in flight; no document
\* mixes the fields of two snapshots.
C23_LastArrivalWins ==
  /\ (lastOp.op = "indexRecipe" /\ lastOp.err = "none") =>
       /\ Cardinality(DocsOf(lastOp.arg.recipe.id)) = 1
       /\ CopiesIn(EsEntry(lastOp.arg.recipe.id, RecipeData(lastOp.arg.recipe)), index) = 1
  /\ WholeDocuments

\* two upserts carrying different snapshots of one recipe were in flight
\* together; one has reached the backend, and the index holds its document
C23_Witness ==
  /\ lastOp.op = "indexRecipe" /\ lastOp.err = "none"
  /\ Len(inflight) = 1
  /\ inflight[1].id = lastOp.arg.recipe.id
  /\ inflight[1].document # RecipeData(lastOp.arg.recipe)
  /\ CopiesIn(EsEntry(lastOp.arg.recipe.id, RecipeData(lastOp.arg.recipe)), index) = 1

\* ------------------------------------------------------ suggestions
\* the strings the store holds for a field
StoredValues(field) ==
  CASE field = "ingredients" -> UNION {Range(store[i].ingredients) : i \in DOMAIN store}
    [] field = "tags" -> UNION {Range(store[i].tags) : i \in DOMAIN store}
    [] field = "cuisine" -> {Val(store[i].cuisine) : i \in {j \in DOMAIN store : IsSome(store[j].cuisine)}}

\* C24: getSuggestions returns the empty list, without any call, for a
\* partial text that is missing or shorter than 2 characters; otherwise,
\* for the fields ingredients, cuisine and tags, it returns at most 10
\* pairwise distinct strings, all held by the primary store, having called
\* the primary store only.
C24_SuggestionsBoundedDistinct ==
  lastOp.op = "getSuggestions" =>
    LET list == lastOp.ret.value IN
    /\ lastOp.err = "none"
    /\ Len(lastOp.arg.query) < 2 => (list = <<>> /\ calls = <<>>)
    /\ (Len(lastOp.arg.query) >= 2
         /\ lastOp.arg.field \in {"ingredients", "cuisine", "tags"}) =>
         /\ Len(list) <= 10
         /\ \A k \in 1..Len(list), j \in 1..Len(list) : k # j => list[k] # list[j]
         /\ Range(list) \subseteq StoredValues(lastOp.arg.field)
         /\ Len(calls) = 1
         /\ calls[1].api \in {"prisma.ingredient.findMany", "prisma.recipe.findMany"}

\* ten tags returned where the matching recipes carry more, some repeated
C24_Witness ==
  /\ lastOp.op = "getSuggestions" /\ lastOp.arg.field = "tags"
  /\ Len(lastOp.ret.value) = 10
  /\ Cardinality(StoredValues("tags")) > 10
  /\ calls[1].ok

\* ------------------------------------------------------ concurrent ratings
\* the table holds at most one rating for each (userId, recipeId)
OneRatingEach(table) ==
  \A k \in 1..Len(table), j \in 1..Len(table) :
    (table[k].userId = table[j].userId /\ table[k].recipeId = table[j].recipeId)
      => k = j

\* what the step finishing a rateRecipe call did to the table
RatingStep ==
  LET arg == lastOp'.arg
      before == RatingRows(ratingTable, arg.userId, arg.id)
      after == RatingRows(ratingTable', arg.userId, arg.id)
  IN /\ OneRatingEach(ratingTable')
     /\ lastOp'.op = "rateRecipe" =>
          /\ arg.id \notin DOMAIN store => lastOp'.err = "NotFound"
          /\ lastOp'.err # "none" => ratingTable' = ratingTable
          /\ lastOp'.err = "none" =>
               /\ \A k \in 1..Len(ratingTable) \ before : ratingTable'[k] = ratingTable[k]
               /\ \E k \in after : ratingTable'[k].rating = arg.rating
               /\ IF before # {}
                  THEN after = before /\ Len(ratingTable') = Len(ratingTable)
                  ELSE Len(ratingTable') = Len(ratingTable) + 1
          /\ (calls'[1].api = "prisma.rating.create" /\ before # {}) =>
               lastOp'.err = "P2002"

\* C25: through every interleaving of rateRecipe calls the table holds at
\* most one rating per (userId, recipeId): a finishing call updates the
\* existing rating in place or adds the first one, a create that meets an
\* existing rating fails with the store's unique-constraint error, and a
\* call for a recipe that does not exist raises NotFound; a failing call
\* writes nothing.
C25_OneRatingPerUserAndRecipe == [][RatingStep]_vars

\* two calls of one user for one recipe both found no rating; the first
\* created it and the create of the second failed on the unique constraint
C25_Witness ==
  /\ lastOp.op = "rateRecipe" /\ lastOp.err = "P2002"
  /\ RatingRows(ratingTable, lastOp.arg.userId, lastOp.arg.id) # {}
  /\ OneRatingEach(ratingTable)

\* ------------------------------------------------------ retry and cache
\* a getCachedOrExecute call returned what its operation gave
OperationReturned ==
  lastOp.op = "getCachedOrExecute" /\ lastOp.path = "operation" /\ lastOp.err = "none"

AllFailed(outcomes) == \A j \in 1..Len(outcomes) : outcomes[j] = "fail"

\* the waits between n attempts: 1000 ms, then 2000 ms
BackoffBefore(n) == SubSeq(<<1000, 2000>>, 1, n - 1)

RetryBounded ==
  /\ \A k \in 1..Len(inflight) :
       LET req == inflight[k] IN
       /\ Len(req.outcomes) <= 3
       /\ AllFailed(req.outcomes)
       /\ req.pc = "sleep" => Len(req.outcomes) < 3
  /\ OperationReturned =>
       LET outcomes == lastOp.ret.outcomes
           n == Len(outcomes)
       IN /\ n >= 1 /\ n <= 3
          /\ AllFailed(SubSeq(outcomes, 1, n - 1))
          /\ lastOp.ret.waits = BackoffBefore(n)
          /\ IF outcomes[n] = "fail"
             THEN n = 3 /\ lastOp.ret.value = "fallback"
             ELSE lastOp.ret.value = outcomes[n]

CallStarts ==
  \/ lastOp'.op = "getCachedOrExecute.operation"
  \/ lastOp'.op = "getCachedOrExecute" /\ (lastOp'.path = "cache" \/ lastOp'.err = "Error")

CacheStep ==
  /\ CallStarts =>
       IF lastOp'.arg.key \in DOMAIN cache
       THEN /\ lastOp'.path = "cache" /\ lastOp'.err = "none"
            /\ lastOp'.ret.value = cache[lastOp'.arg.key].value
            /\ lastOp'.ret.age <= 3600000
            /\ calls' = <<>> /\ inflight' = inflight
            /\ cache' = cache /\ timers' = timers
       ELSE lastOp'.path = "operation"
  /\ lastOp'.err = "Error" => (cache' = cache /\ timers' = timers)
  /\ \A key \in DOMAIN cache' :
       /\ clock' - cache'[key].writtenAt <= 3600000
       /\ \E timer \in timers' :
            timer.key = key /\ timer.at = cache'[key].writtenAt + 3600000

SingleFlightStep ==
  /\ (lastOp'.op = "getCachedOrExecute" /\ lastOp'.path = "operation"
        /\ lastOp'.err = "none") =>
       /\ Len(lastOp'.ret.outcomes) >= 1
       /\ lastOp'.arg.key \in DOMAIN cache'
       /\ cache'[lastOp'.arg.key] = [value |-> lastOp'.ret.value, writtenAt |-> clock']
  /\ lastOp'.op = "cache.delete" => lastOp'.arg.key \notin DOMAIN cache'

IsWrite(op) == op \in {"update", "remove"}

AuthorStep ==
  IsWrite(lastOp'.op) =>
    LET id == lastOp'.arg.id
        userId == lastOp'.arg.userId
    IN /\ store' # store => (id \in DOMAIN store /\ store[id].authorId = userId)
       /\ (calls'[1].ok /\ id \notin DOMAIN store) =>
            /\ lastOp'.err = "NotFoundException"
            /\ store' = store /\ index' = index
       /\ (calls'[1].ok /\ id \in DOMAIN store /\ store[id].authorId # userId) =>
            /\ lastOp'.err = "ForbiddenException"
            /\ store' = store /\ index' = index

\* C29: update and remove change the primary store only when the recipe
\* exists and the caller is its author; for a missing recipe they raise
\* NotFoundException, for another user's recipe ForbiddenException, and in
\* both cases store and index stay as they were.
C29_OnlyAuthorWrites == [][AuthorStep]_vars

\* an update refused to a user who is not the author
C29_Witness ==
  /\ lastOp.op = "update" /\ lastOp.err = "ForbiddenException"
  /\ lastOp.arg.id \in DOMAIN store
  /\ store[lastOp.arg.id].authorId # lastOp.arg.userId

\* the token that belongs to each user
TokenOfUser == [u \in Users |-> IF u = "u1" THEN tokU1 ELSE tokU2]

\* the socket presented, in auth or in its Authorization header, the token
\* of user u
PresentedTokenOf(s, u) ==
  LET hs == sockets[s].handshake IN
  \/ hs.auth = Some(TokenOfUser[u])
  \/ /\ ~TruthyString(hs.auth)
     /\ hs.authorization \in {Some(TokenOfUser[u]),
                              Some(<<"Bearer ">> \o TokenOfUser[u])}

\* the socket presented no token, an empty one or one that does not verify
PresentedNoValidToken(s) ==
  LET hs == sockets[s].handshake IN
  /\ hs.auth \in {None, Some(<<>>), Some(tokBad)}
  /\ hs.authorization \in {None, Some(<<"Bearer ">>)}

\* C30: connectedUsers maps a socket to a user only if the socket connected
\* with a token that verified to that user and has not disconnected; a socket
\* whose token is missing or invalid is disconnected and never recorded; a
\* socket is in room notifications:U or feed:U only if connectedUsers maps it
\* to U.
C30_GatewayRecordsVerifiedUsers ==
  /\ \A s \in DOMAIN connectedUsers : \A u \in Users :
       connectedUsers[s] = Some(u) =>
         /\ s \in 1..Len(sockets)
         /\ sockets[s].connected
         /\ PresentedTokenOf(s, u)
  /\ \A s \in 1..Len(sockets) :
       PresentedNoValidToken(s) =>
         /\ ~sockets[s].connected
         /\ s \notin DOMAIN connectedUsers
  /\ \A m \in rooms :
       m.room.kind \in {"notifications", "feed"} =>
         /\ m.socket \in DOMAIN connectedUsers
         /\ connectedUsers[m.socket] = Some(m.room.id)

\* a socket of u1 sits in notifications:u1, its request for the other user's
\* room was ignored, and another socket was turned away without a record
C30_Witness ==
  /\ lastOp.op \in {"handleSubscribeNotifications", "handleSubscribeFeed"}
  /\ lastOp.arg.userId = "u2"
  /\ ~lastOp.ret.changed
  /\ connectedUsers[lastOp.arg.socket] = Some("u1")
  /\ Membership(lastOp.arg.socket, Room("notifications", Some("u1"))) \in rooms
  /\ \E s \in 1..Len(sockets) :
       PresentedNoValidToken(s) /\ ~sockets[s].connected

====
